---- MODULE Spec2Model ----
(***************************************************************************)
(* Hospital stress prediction and recommendation engine                     *)
(* (backend/app/services/prediction_engine.py and its collaborators).       *)
(*                                                                          *)
(* Encoding conventions                                                     *)
(*  - Python None is the integer None below; an Optional[List] argument is  *)
(*    <<>> for None and <<list>> for a list, so that None and [] differ.    *)
(*  - dates are day numbers; weekday(d) = d % 7 with 0 = Monday.            *)
(*  - float quantities are exact rationals [n |-> , d |-> ] in lowest terms *)
(*    (d > 0); int(x) truncates.                                            *)
(*  - md5 is taken to be injective: a cache key is the text it hashes.      *)
(***************************************************************************)
EXTENDS Integers, Sequences, FiniteSets, TLC

VARIABLES
    store,      \* the 'logs' table of the history store: date-ordered records
    cache,      \* the Redis cache: key -> entry
    now,        \* the clock, in seconds
    today,      \* the calendar day of the clock (datetime.now().date())
    req,       \* the requests in flight, one per slot
    inv,        \* the invalidate_cache call in flight
    probe,      \* a pure function under test: its input and its output
    memo,       \* history: the last result a request returned, and until when
                \* the cache is due to hold it
    started     \* history: the number of requests made so far

vars == <<store, cache, now, today, req, inv, probe, memo, started>>

(***************************************************************************)
(* Bounds of the model                                                      *)
(***************************************************************************)
MaxLen == 3         \* longest record sequence given to _handle_missing_data
MaxReqs == 2        \* requests made in one behaviour
MaxInv == 1         \* invalidate_cache calls made in one behaviour
MaxTime == 1000     \* last instant of the clock

(***************************************************************************)
(* Values                                                                   *)
(***************************************************************************)
None == -999

Max(a, b) == IF a >= b THEN a ELSE b
Min(a, b) == IF a <= b THEN a ELSE b

Abs(x) == IF x < 0 THEN -x ELSE x

RECURSIVE GCD(_, _)
GCD(a, b) == IF b = 0 THEN a ELSE GCD(b, a % b)

\* The rational n/d (d # 0) in lowest terms with a positive denominator.
Rat(n, d) ==
    LET s == IF d < 0 THEN -1 ELSE 1
        g == GCD(Abs(n), Abs(d))
    IN  [n |-> (s * n) \div g, d |-> (s * d) \div g]

RInt(k) == [n |-> k, d |-> 1]
RAdd(x, y) == Rat(x.n * y.d + y.n * x.d, x.d * y.d)
RSub(x, y) == Rat(x.n * y.d - y.n * x.d, x.d * y.d)
RMul(x, y) == Rat(x.n * y.n, x.d * y.d)
RDiv(x, y) == Rat(x.n * y.d, x.d * y.n)
RLe(x, y) == x.n * y.d <= y.n * x.d
RLt(x, y) == x.n * y.d < y.n * x.d
RMax(x, y) == IF RLe(y, x) THEN x ELSE y
RMin(x, y) == IF RLe(x, y) THEN x ELSE y
\* int(x): truncation toward zero
RTrunc(x) == IF x.n >= 0 THEN x.n \div x.d ELSE -((-x.n) \div x.d)

RECURSIVE SumOver(_, _, _)
SumOver(seq, field, i) ==
    IF i = 0 THEN 0 ELSE seq[i][field] + SumOver(seq, field, i - 1)

\* seq[-k:] of Python
LastN(seq, k) ==
    IF Len(seq) <= k THEN seq ELSE SubSeq(seq, Len(seq) - k + 1, Len(seq))

\* seq[:k] of Python
FirstN(seq, k) == IF Len(seq) <= k THEN seq ELSE SubSeq(seq, 1, k)

HospitalRecord(d, a, b, s, f) ==
    [date |-> d, admissions |-> a, beds_occupied |-> b, staff_on_duty |-> s,
     overload_flag |-> f]

(***************************************************************************)
(* _handle_missing_data: forward fill of the three numeric columns.         *)
(* df[col].replace([None, -1], nan) marks exactly None and -1 as missing;   *)
(* ffill() takes the last value before that is not missing; fillna(0)       *)
(* fills what is still missing at the beginning.                            *)
(***************************************************************************)
IsMissing(v) == v = None \/ v = -1

RECURSIVE ffill(_, _, _)
ffill(data, col, i) ==
    IF i = 0 THEN 0
    ELSE IF IsMissing(data[i][col]) THEN ffill(data, col, i - 1)
    ELSE data[i][col]

_handle_missing_data(data) ==
    IF data = <<>> THEN data
    ELSE [i \in 1..Len(data) |->
            HospitalRecord(data[i].date,
                           ffill(data, "admissions", i),
                           ffill(data, "beds_occupied", i),
                           ffill(data, "staff_on_duty", i),
                           data[i].overload_flag)]

(***************************************************************************)
(* JSON values of the backend's text, as json.loads yields them: a number  *)
(* (t = "num", v its value), a string, null, or an absent key.             *)
(***************************************************************************)
JNum(k) == [t |-> "num", v |-> RInt(k)]
JStr == [t |-> "str", v |-> RInt(0)]
JNull == [t |-> "null", v |-> RInt(0)]
JAbsent == [t |-> "absent", v |-> RInt(0)]

\* dict.get(key, default)
JGet(jv, default) == IF jv.t = "absent" THEN default ELSE jv

\* One element of the day array: a JSON object with its two keys, or
\* (obj = FALSE) anything that is not an object.
DayItem(o, b, c) == [obj |-> o, predicted_beds |-> b, confidence |-> c]

(***************************************************************************)
(* Forecast generation                                                      *)
(***************************************************************************)
total_bed_capacity == 500

weekday(d) == d % 7

\* A bed stress computed with the quotient cut to an integer.
BedStressFloorDivided(predicted_beds, capacity) ==
    IF capacity <= 0 THEN RInt(0)
    ELSE RMax(RInt(0),
              RMin(RInt(100),
                   RMul(RInt(RTrunc(RDiv(predicted_beds, RInt(capacity)))),
                        RInt(100))))

\* _calculate_bed_stress on an engine whose total_bed_capacity is capacity.
BedStressAt(predicted_beds, capacity) ==
    IF capacity <= 0 THEN RInt(0)
    ELSE RMax(RInt(0),
              RMin(RInt(100),
                   RMul(RDiv(predicted_beds, RInt(capacity)), RInt(100))))

_calculate_bed_stress(predicted_beds) ==
    BedStressAt(predicted_beds, total_bed_capacity)

RECURSIVE quality_penalty(_, _)
quality_penalty(data, i) ==
    IF i = 0 THEN 0
    ELSE (IF data[i].admissions < 0 \/ data[i].beds_occupied < 0
             \/ data[i].staff_on_duty < 0 THEN 5 ELSE 0)
         + (IF data[i].beds_occupied * 2 > total_bed_capacity * 3 THEN 2 ELSE 0)
         + (IF data[i].admissions > 500 THEN 1 ELSE 0)
         + quality_penalty(data, i - 1)

_assess_data_quality(data) ==
    IF data = <<>> THEN 0
    ELSE Max(0, Min(100, 100 - quality_penalty(data, Len(data))))

_assess_data_completeness(data) ==
    IF data = <<>> THEN 0
    ELSE IF Len(data) >= 180 THEN 100
    ELSE IF Len(data) >= 90 THEN 80
    ELSE IF Len(data) >= 30 THEN 60
    ELSE IF Len(data) >= 7 THEN 40
    ELSE 20

calculate_confidence(data_quality, data_completeness, historical_accuracy) ==
    RMax(RInt(0),
         RMin(RInt(100),
              Rat(4 * data_quality + 3 * data_completeness
                  + 3 * historical_accuracy, 10)))

_generate_fallback_forecast(data, days_ahead, day) ==
    IF data = <<>>
    THEN [i \in 1..days_ahead |-> DayItem(TRUE, JNum(200), JNum(30))]
    ELSE LET recent_data == LastN(data, 14)
             total == SumOver(recent_data, "beds_occupied", Len(recent_data))
         IN  [i \in 1..days_ahead |->
                LET mult == IF weekday(day + i) < 5 THEN 11 ELSE 9
                IN  DayItem(TRUE,
                            JNum(RTrunc(Rat(total * mult, Len(recent_data) * 10))),
                            JNum(60))]

(***************************************************************************)
(* The backend's answer to one generate_content call.                       *)
(*   none     generate_content returned None (backend unavailable)          *)
(*   raise    generate_content raised                                       *)
(*   empty    the empty text                                                *)
(*   not_json text json.loads rejects                                       *)
(*   scalar   JSON that cannot be sliced (object, number, true, null)       *)
(*   list     a JSON array, its elements in items (a JSON string slices     *)
(*            like an array of elements that are not objects)               *)
(***************************************************************************)
Response(k, it) == [kind |-> k, items |-> it]

\* generate_content gave no text: the client returned None, having caught
\* whatever the model raised.
CallFailed(response) == response.kind \in {"none", "raise"}

\* A failed call made a second time.
GenerateContentCallsRetrying(response) == IF CallFailed(response) THEN 2 ELSE 1

\* The generate_content calls of one _generate_ai_forecast or
\* _generate_ai_recommendations: one call in the try block, in no loop; the
\* except branch and the client make none.
GenerateContentCalls(response) == 1

_generate_ai_forecast(historical_data, days_ahead, response, day) ==
    IF response.kind = "list"
    THEN FirstN(response.items, days_ahead)
    ELSE _generate_fallback_forecast(historical_data, days_ahead, day)

\* day_data.get(...) on an element that is no dict raises AttributeError;
\* predicted_beds / capacity on a value that is no number raises TypeError.
DayRaises(day_data) ==
    \/ ~day_data.obj
    \/ JGet(day_data.predicted_beds, JNum(0)).t # "num"

\* A DailyPrediction that is high risk from a bed stress of 85 on.
DailyPredictionHighFrom85(d, day_data) ==
    LET predicted_beds == JGet(day_data.predicted_beds, JNum(0)).v
        bed_stress == _calculate_bed_stress(predicted_beds)
    IN  [date |-> d,
         predicted_beds |-> predicted_beds,
         bed_stress |-> bed_stress,
         confidence |-> JGet(day_data.confidence, JNum(50)),
         is_high_risk |-> RLe(RInt(85), bed_stress)]

DailyPrediction(d, day_data) ==
    LET predicted_beds == JGet(day_data.predicted_beds, JNum(0)).v
        bed_stress == _calculate_bed_stress(predicted_beds)
    IN  [date |-> d,
         predicted_beds |-> predicted_beds,
         bed_stress |-> bed_stress,
         confidence |-> JGet(day_data.confidence, JNum(50)),
         is_high_risk |-> RLt(RInt(85), bed_stress)]

Raised == [status |-> "raised", value |-> <<>>]
Returned(v) == [status |-> "ok", value |-> v]

\* forecast_bed_demand after the cache miss, up to the BedForecast object.
ForecastCompute(days_ahead, historical_data, response, day, clock) ==
    LET processed_data == _handle_missing_data(historical_data)
        forecast_data == _generate_ai_forecast(processed_data, days_ahead,
                                               response, day)
    IN  IF \E i \in 1..Len(forecast_data) : DayRaises(forecast_data[i])
        THEN Raised
        ELSE Returned(
               [predictions |->
                    [i \in 1..Len(forecast_data) |->
                        DailyPrediction(day + i, forecast_data[i])],
                overall_confidence |->
                    calculate_confidence(_assess_data_quality(processed_data),
                                         _assess_data_completeness(processed_data),
                                         80),
                generated_at |-> clock])

(***************************************************************************)
(* Staff risk                                                               *)
(***************************************************************************)
\* The low band without its floor at 0.
BaseStaffRiskUnclamped(predicted_admissions, current_staff) ==
    IF current_staff <= 0 THEN RInt(100)
    ELSE LET staff_per_admission == Rat(current_staff, Max(1, predicted_admissions))
             optimal_ratio == Rat(1, 2)
             warning_ratio == Rat(3, 10)
             critical_ratio == Rat(1, 5)
         IN  IF RLe(optimal_ratio, staff_per_admission)
             THEN RMul(RInt(20),
                       RSub(RInt(1),
                            RDiv(RSub(staff_per_admission, optimal_ratio),
                                 optimal_ratio)))
             ELSE IF RLe(warning_ratio, staff_per_admission)
             THEN RAdd(RInt(20),
                       RMul(RDiv(RSub(optimal_ratio, staff_per_admission),
                                 RSub(optimal_ratio, warning_ratio)),
                            RInt(30)))
             ELSE IF RLe(critical_ratio, staff_per_admission)
             THEN RAdd(RInt(50),
                       RMul(RDiv(RSub(warning_ratio, staff_per_admission),
                                 RSub(warning_ratio, critical_ratio)),
                            RInt(30)))
             ELSE RAdd(RInt(80),
                       RMin(RInt(20),
                            RMul(RSub(critical_ratio, staff_per_admission),
                                 RInt(100))))

_calculate_base_staff_risk(predicted_admissions, current_staff) ==
    IF current_staff <= 0 THEN RInt(100)
    ELSE LET staff_per_admission == Rat(current_staff, Max(1, predicted_admissions))
             optimal_ratio == Rat(1, 2)
             warning_ratio == Rat(3, 10)
             critical_ratio == Rat(1, 5)
         IN  IF RLe(optimal_ratio, staff_per_admission)
             THEN RMax(RInt(0),
                       RMul(RInt(20),
                            RSub(RInt(1),
                                 RDiv(RSub(staff_per_admission, optimal_ratio),
                                      optimal_ratio))))
             ELSE IF RLe(warning_ratio, staff_per_admission)
             THEN RAdd(RInt(20),
                       RMul(RDiv(RSub(optimal_ratio, staff_per_admission),
                                 RSub(optimal_ratio, warning_ratio)),
                            RInt(30)))
             ELSE IF RLe(critical_ratio, staff_per_admission)
             THEN RAdd(RInt(50),
                       RMul(RDiv(RSub(warning_ratio, staff_per_admission),
                                 RSub(warning_ratio, critical_ratio)),
                            RInt(30)))
             ELSE RAdd(RInt(80),
                       RMin(RInt(20),
                            RMul(RSub(critical_ratio, staff_per_admission),
                                 RInt(100))))

\* The elements seq[k], k <= i, for which keep[k] holds, in order.
RECURSIVE Filter(_, _, _)
Filter(seq, keep, i) ==
    IF i = 0 THEN <<>>
    ELSE IF keep[i] THEN Append(Filter(seq, keep, i - 1), seq[i])
    ELSE Filter(seq, keep, i - 1)

_analyze_general_overload_trends(predicted_admissions, current_staff, historical_overloads) ==
    IF historical_overloads = <<>> THEN RInt(50)
    ELSE LET n == Len(historical_overloads)
             avg_overload_admissions ==
                 Rat(SumOver(historical_overloads, "admissions", n), n)
             avg_overload_staff ==
                 Rat(SumOver(historical_overloads, "staff_on_duty", n), n)
             admission_ratio ==
                 RDiv(RInt(predicted_admissions),
                      RMax(RInt(1), avg_overload_admissions))
             staff_ratio ==
                 RDiv(RInt(current_staff), RMax(RInt(1), avg_overload_staff))
             risk_multiplier ==
                 RDiv(admission_ratio, RMax(Rat(1, 10), staff_ratio))
             pattern_risk == RMul(RInt(40), RMin(RInt(2), risk_multiplier))
         IN  RMin(RInt(90), pattern_risk)

_analyze_overload_patterns(predicted_admissions, current_staff, historical_overloads) ==
    IF historical_overloads = <<>> THEN RInt(50)
    ELSE LET Similar(record) ==
                 /\ Abs(record.admissions - predicted_admissions) <= 20
                 /\ Abs(record.staff_on_duty - current_staff) <= 5
             similar_conditions ==
                 Filter(historical_overloads, [k \in DOMAIN historical_overloads |-> Similar(historical_overloads[k])], Len(historical_overloads))
         IN  IF similar_conditions = <<>>
             THEN _analyze_general_overload_trends(predicted_admissions,
                                                   current_staff,
                                                   historical_overloads)
             ELSE RMin(RInt(90),
                       RMul(Rat(Len(similar_conditions),
                                Max(1, Len(historical_overloads))),
                            RInt(100)))

\* The factors without the closing default: none when no condition applies.
RiskFactorsWithoutDefault(predicted_admissions, current_staff, risk_score, historical_overloads, day) ==
    LET staff_per_admission == Rat(current_staff, Max(1, predicted_admissions))
        f1 == IF RLt(staff_per_admission, Rat(3, 10))
              THEN <<"Below optimal staffing levels">> ELSE <<>>
        f2 == IF predicted_admissions > 300
              THEN <<"High admission volume predicted">> ELSE <<>>
        f3 == IF current_staff < 20
              THEN <<"Low absolute staff count">> ELSE <<>>
        f6 == IF RLt(RInt(75), risk_score)
              THEN <<"High risk level - proactive measures recommended">>
              ELSE <<>>
    IN  f1 \o f2 \o f3 \o f6

_identify_risk_factors(predicted_admissions, current_staff, risk_score, historical_overloads, day) ==
    LET staff_per_admission == Rat(current_staff, Max(1, predicted_admissions))
        n == Len(historical_overloads)
        Recent(r) == day - r.date <= 30
        f1 == IF RLt(staff_per_admission, Rat(1, 5))
              THEN <<"Severely understaffed for predicted admission volume">>
              ELSE IF RLt(staff_per_admission, Rat(3, 10))
              THEN <<"Below optimal staffing levels">>
              ELSE <<>>
        f2 == IF predicted_admissions > 300
              THEN <<"High admission volume predicted">> ELSE <<>>
        f3 == IF current_staff < 20
              THEN <<"Low absolute staff count">> ELSE <<>>
        f4 == IF n > 0 /\ Len(Filter(historical_overloads, [k \in DOMAIN historical_overloads |-> Recent(historical_overloads[k])], n)) > 3
              THEN <<"Recent history of frequent overload events">> ELSE <<>>
        f5 == IF n > 0
                 /\ RLt(RMul(Rat(SumOver(historical_overloads, "admissions", n),
                                 Max(1, n)),
                             Rat(9, 10)),
                        RInt(predicted_admissions))
              THEN <<"Admission volume approaching historical overload levels">>
              ELSE <<>>
        f6 == IF RLt(RInt(90), risk_score)
              THEN <<"Critical risk level - immediate action required">>
              ELSE IF RLt(RInt(75), risk_score)
              THEN <<"High risk level - proactive measures recommended">>
              ELSE <<>>
        factors == f1 \o f2 \o f3 \o f4 \o f5 \o f6
    IN  IF factors # <<>> THEN factors
        ELSE IF RLt(RInt(50), risk_score)
        THEN <<"Moderate risk based on current staffing and admission predictions">>
        ELSE <<"Low risk - adequate staffing for predicted volume">>

_calculate_staff_risk_confidence(historical_overloads, day) ==
    LET n == Len(historical_overloads)
        Recent(r) == day - r.date <= 90
        data_confidence ==
            IF n >= 50 THEN 100
            ELSE IF n >= 20 THEN 85
            ELSE IF n >= 10 THEN 70
            ELSE IF n >= 5 THEN 55
            ELSE 40
        recency_bonus == Min(20, Len(Filter(historical_overloads, [k \in DOMAIN historical_overloads |-> Recent(historical_overloads[k])], n)) * 2)
    IN  RMin(RInt(100), Rat(70 + data_confidence + recency_bonus, 2))

\* A StaffRiskScore that is critical from 75 on.
StaffRiskCriticalFrom75(predicted_admissions, current_staff, historical_overloads, day, clock) ==
    LET base_risk == _calculate_base_staff_risk(predicted_admissions, current_staff)
        pattern_risk == _analyze_overload_patterns(predicted_admissions,
                                                   current_staff,
                                                   historical_overloads)
        risk_score == RMax(RInt(0),
                           RMin(RInt(100),
                                RAdd(RMul(base_risk, Rat(6, 10)),
                                     RMul(pattern_risk, Rat(4, 10)))))
    IN  Returned(
          [risk_score |-> risk_score,
           confidence |-> _calculate_staff_risk_confidence(historical_overloads, day),
           is_critical |-> RLe(RInt(75), risk_score),
           contributing_factors |->
               _identify_risk_factors(predicted_admissions, current_staff,
                                      risk_score, historical_overloads, day),
           generated_at |-> clock])

\* calculate_staff_risk after the cache miss, up to the StaffRiskScore object.
StaffRiskCompute(predicted_admissions, current_staff, historical_overloads, day, clock) ==
    LET base_risk == _calculate_base_staff_risk(predicted_admissions, current_staff)
        pattern_risk == _analyze_overload_patterns(predicted_admissions,
                                                   current_staff,
                                                   historical_overloads)
        combined_risk == RAdd(RMul(base_risk, Rat(6, 10)),
                              RMul(pattern_risk, Rat(4, 10)))
        risk_score == RMax(RInt(0), RMin(RInt(100), combined_risk))
    IN  Returned(
          [risk_score |-> risk_score,
           confidence |-> _calculate_staff_risk_confidence(historical_overloads, day),
           is_critical |-> RLt(RInt(75), risk_score),
           contributing_factors |->
               _identify_risk_factors(predicted_admissions, current_staff,
                                      risk_score, historical_overloads, day),
           generated_at |-> clock])

(***************************************************************************)
(* Recommendations                                                          *)
(***************************************************************************)
\* A title as the backend gave it: a string, or (t # "str") a JSON value
\* that is no string.
Title(text) == [t |-> "str", s |-> text]

\* str.lower() on the titles of the model
Lower(text) ==
    CASE text = "Emergency Staff Augmentation" -> "emergency staff augmentation"
      [] text = "Optimize Staff Scheduling" -> "optimize staff scheduling"
      [] text = "Activate Surge Capacity Protocol" -> "activate surge capacity protocol"
      [] text = "Enhance Discharge Planning" -> "enhance discharge planning"
      [] text = "ENHANCE DISCHARGE PLANNING" -> "enhance discharge planning"
      [] text = "Implement Real-time Capacity Dashboard" ->
             "implement real-time capacity dashboard"
      [] text = "Preventive Maintenance Review" -> "preventive maintenance review"
      [] text = "Open Overflow Ward" -> "open overflow ward"
      [] text = "Hire Agency Nurses" -> "hire agency nurses"
      [] OTHER -> text

Rationale(text) == [text |-> text, notes |-> <<>>]

Recommendation(title, description, rationale, cost, impact, priority, time) ==
    [title |-> title, description |-> description, rationale |-> rationale,
     cost_estimate |-> cost, impact_score |-> impact, priority |-> priority,
     implementation_time |-> time]

\* sorted(seq, key=..., reverse=True) on the keys in keys: stable,
\* descending.
RECURSIVE InsertDesc(_, _)
InsertDesc(sorted, x) ==
    IF sorted = <<>> THEN <<x>>
    ELSE IF RLt(Head(sorted).key, x.key) THEN <<x>> \o sorted
    ELSE <<Head(sorted)>> \o InsertDesc(Tail(sorted), x)

RECURSIVE SortKeyed(_, _, _)
SortKeyed(seq, keys, i) ==
    IF i = 0 THEN <<>>
    ELSE InsertDesc(SortKeyed(seq, keys, i - 1),
                    [key |-> keys[i], rec |-> seq[i]])

SortDesc(seq, keys) ==
    LET keyed == SortKeyed(seq, keys, Len(seq))
    IN  [i \in 1..Len(keyed) |-> keyed[i].rec]

\* The cost the ranking divides by: a cost <= 0 is replaced by 1000.
RankingCost(cost_estimate) ==
    IF RLe(cost_estimate, RInt(0)) THEN RInt(1000) ELSE cost_estimate

\* A ranking that trusts the order and the priorities it is given.
RankAsGiven(recommendations) == recommendations

_rank_recommendations_by_impact_cost_ratio(recommendations) ==
    LET costed == [i \in 1..Len(recommendations) |->
                     [recommendations[i] EXCEPT
                        !.cost_estimate = RankingCost(@)]]
        ratio == [i \in 1..Len(costed) |->
                    RDiv(costed[i].impact_score, costed[i].cost_estimate)]
        sorted_recs == SortDesc(costed, ratio)
    IN  [i \in 1..Len(sorted_recs) |-> [sorted_recs[i] EXCEPT !.priority = i]]

_generate_fallback_recommendations(bed_stress, staff_risk) ==
    LET rec1 == IF RLt(RInt(75), staff_risk)
                THEN Recommendation(Title("Emergency Staff Augmentation"),
                        "Immediately call in additional nursing staff",
                        Rationale("High staff risk detected"),
                        RInt(12000), RInt(90), 1, "4 hours")
                ELSE Recommendation(Title("Optimize Staff Scheduling"),
                        "Review and adjust staff schedules",
                        Rationale("Current staffing appears adequate"),
                        RInt(2000), RInt(65), 1, "24 hours")
        rec2 == IF RLt(RInt(85), bed_stress)
                THEN Recommendation(Title("Activate Surge Capacity Protocol"),
                        "Open additional beds in overflow areas",
                        Rationale("High bed stress requires capacity expansion"),
                        RInt(8000), RInt(85), 2, "6 hours")
                ELSE Recommendation(Title("Enhance Discharge Planning"),
                        "Implement early discharge planning rounds",
                        Rationale("Proactive discharge planning prevents shortages"),
                        RInt(5000), RInt(70), 2, "2 days")
        rec3 == IF RLt(RInt(80), bed_stress) \/ RLt(RInt(70), staff_risk)
                THEN Recommendation(Title("Implement Real-time Capacity Dashboard"),
                        "Deploy hospital-wide capacity monitoring system",
                        Rationale("High stress levels need situational awareness"),
                        RInt(25000), RInt(75), 3, "2 weeks")
                ELSE Recommendation(Title("Preventive Maintenance Review"),
                        "Conduct comprehensive review of equipment",
                        Rationale("Moderate stress allows preventive measures"),
                        RInt(15000), RInt(55), 3, "1 week")
    IN  _rank_recommendations_by_impact_cost_ratio(<<rec1, rec2, rec3>>)

\* One element of the recommendation array: a JSON object with its keys,
\* or (obj = FALSE) anything that is not an object.
RecItem(o, title, cost, impact, priority) ==
    [obj |-> o, title |-> title, cost_estimate |-> cost,
     impact_score |-> impact, priority |-> priority]

\* rec_data.get on a non-dict, float() or int() on a value that is no
\* number: all raise inside the try of _generate_ai_recommendations.
RecItemRaises(rec_data, i) ==
    \/ ~rec_data.obj
    \/ JGet(rec_data.cost_estimate, JNum(10000)).t # "num"
    \/ JGet(rec_data.impact_score, JNum(50)).t # "num"
    \/ JGet(rec_data.priority, JNum(i)).t # "num"

GenericTitle(i) ==
    CASE i = 1 -> "Recommendation 1"
      [] i = 2 -> "Recommendation 2"
      [] OTHER -> "Recommendation 3"

RecFromItem(rec_data, i) ==
    Recommendation(
        IF rec_data.title.t = "absent" THEN Title(GenericTitle(i))
        ELSE rec_data.title,
        "No description provided",
        Rationale("No rationale provided"),
        JGet(rec_data.cost_estimate, JNum(10000)).v,
        JGet(rec_data.impact_score, JNum(50)).v,
        RTrunc(JGet(rec_data.priority, JNum(i)).v),
        "1 week")

_generate_ai_recommendations(bed_stress, staff_risk, response) ==
    LET items == FirstN(response.items, 3)
    IN  IF /\ response.kind = "list"
           /\ \A i \in 1..Len(items) : ~RecItemRaises(items[i], i)
        THEN [i \in 1..Len(items) |-> RecFromItem(items[i], i)]
        ELSE _generate_fallback_recommendations(bed_stress, staff_risk)

AdditionalTitle(k) ==
    CASE k = 0 -> "Additional Capacity Measure 0"
      [] k = 1 -> "Additional Capacity Measure 1"
      [] OTHER -> "Additional Capacity Measure 2"

\* The fallback recommendations appended while fewer than 3 are there,
\* skipping those whose lowered title is among the existing ones.
RECURSIVE TopUp(_, _, _, _)
TopUp(combined, fallback_recs, existing_titles, i) ==
    IF i > Len(fallback_recs) \/ Len(combined) >= 3 THEN combined
    ELSE IF Lower(fallback_recs[i].title.s) \notin existing_titles
    THEN TopUp(Append(combined, fallback_recs[i]), fallback_recs,
               existing_titles, i + 1)
    ELSE TopUp(combined, fallback_recs, existing_titles, i + 1)

RECURSIVE PadGeneric(_)
PadGeneric(combined) ==
    IF Len(combined) >= 3 THEN combined
    ELSE PadGeneric(Append(combined,
            Recommendation(Title(AdditionalTitle(Len(combined))),
                "Implement additional capacity management measures",
                Rationale("Generic recommendation"),
                RInt(10000), RInt(50), Len(combined) + 1, "1 week")))

\* rec.title.lower() on a title that is no string raises AttributeError.
EnsureThreeRaises(recommendations) ==
    /\ Len(recommendations) < 3
    /\ \E i \in 1..Len(recommendations) : recommendations[i].title.t # "str"

_ensure_three_recommendations(recommendations, bed_stress, staff_risk) ==
    IF Len(recommendations) = 3 THEN recommendations
    ELSE IF Len(recommendations) > 3
    THEN LET impact == [i \in 1..Len(recommendations) |->
                           recommendations[i].impact_score]
         IN  FirstN(SortDesc(recommendations, impact), 3)
    ELSE LET fallback_recs ==
                 _generate_fallback_recommendations(bed_stress, staff_risk)
             existing_titles ==
                 {Lower(recommendations[i].title.s) :
                     i \in 1..Len(recommendations)}
         IN  FirstN(PadGeneric(TopUp(recommendations, fallback_recs,
                                     existing_titles, 1)), 3)

(***************************************************************************)
(* Enhancement with the lessons of similar crises (rag_system.py).          *)
(* A lesson is [date, actions_taken, outcome]; an action is its text and    *)
(* the set of keywords that occur in its lowered text.                      *)
(***************************************************************************)
Action(text, contains) == [text |-> text, contains |-> contains]

CrisisLesson(d, actions_taken, outcome) ==
    [date |-> d, actions_taken |-> actions_taken, outcome |-> outcome]

\* text.lower().split() without the common words and the words of at most
\* three letters, for the titles of the model.
_extract_keywords(text) ==
    CASE text = "Emergency Staff Augmentation" ->
             {"emergency", "staff", "augmentation"}
      [] text = "Optimize Staff Scheduling" -> {"optimize", "staff", "scheduling"}
      [] text = "Activate Surge Capacity Protocol" ->
             {"activate", "surge", "capacity", "protocol"}
      [] text = "Enhance Discharge Planning" -> {"enhance", "discharge", "planning"}
      [] text = "ENHANCE DISCHARGE PLANNING" -> {"enhance", "discharge", "planning"}
      [] text = "Implement Real-time Capacity Dashboard" ->
             {"implement", "real-time", "capacity", "dashboard"}
      [] text = "Preventive Maintenance Review" ->
             {"preventive", "maintenance", "review"}
      [] text = "Open Overflow Ward" -> {"open", "overflow", "ward"}
      [] text = "Hire Agency Nurses" -> {"hire", "agency", "nurses"}
      [] text = "Recommendation 1" -> {"recommendation"}
      [] text = "Recommendation 2" -> {"recommendation"}
      [] text = "Recommendation 3" -> {"recommendation"}
      [] OTHER -> {"additional", "capacity", "measure"}

\* The (lesson, action) pairs of the first three lessons, lesson by lesson.
RECURSIVE LessonActions(_, _)
LessonActions(lessons, i) ==
    IF i = 0 THEN <<>>
    ELSE LessonActions(lessons, i - 1)
         \o [j \in 1..Len(lessons[i].actions_taken) |->
                [lesson |-> lessons[i], action |-> lessons[i].actions_taken[j]]]

\* recommendation.title.lower() on a title that is no string raises as soon
\* as one action is looked at.
EnhanceRaises(recommendation, historical_lessons) ==
    /\ recommendation.title.t # "str"
    /\ LessonActions(FirstN(historical_lessons, 3),
                     Len(FirstN(historical_lessons, 3))) # <<>>

\* An enhancement that writes the historical context over the rationale.
EnhanceOverwriting(recommendation, historical_lessons) ==
    [recommendation EXCEPT
        !.rationale = [text |-> "Historical Context",
                       notes |-> <<>>]]

_enhance_single_recommendation(recommendation, historical_lessons) ==
    LET top == FirstN(historical_lessons, 3)
        pairs == LessonActions(top, Len(top))
        Relevant(pair) ==
            pair.action.contains \cap _extract_keywords(recommendation.title.s) # {}
        relevant_actions == Filter(pairs, [k \in DOMAIN pairs |-> Relevant(pairs[k])], Len(pairs))
        cited == FirstN(relevant_actions, 2)
    IN  Recommendation(
            recommendation.title,
            recommendation.description,
            [recommendation.rationale EXCEPT
                !.notes = @ \o [k \in 1..Len(cited) |->
                                  [date |-> cited[k].lesson.date,
                                   action |-> cited[k].action.text,
                                   outcome |-> cited[k].lesson.outcome]]],
            recommendation.cost_estimate,
            recommendation.impact_score,
            recommendation.priority,
            recommendation.implementation_time)

enhance_recommendations(base_recommendations, historical_lessons) ==
    IF historical_lessons = <<>> THEN base_recommendations
    ELSE [i \in 1..Len(base_recommendations) |->
            _enhance_single_recommendation(base_recommendations[i],
                                           historical_lessons)]

(***************************************************************************)
(* What retrieve_similar_crises does in one call: raise, or return the      *)
(* lessons found (none when the embedding or the crisis table is missing).  *)
(***************************************************************************)
Retrieval(k, lessons) == [kind |-> k, lessons |-> lessons]

_enhance_with_rag(recommendations, retrieval) ==
    IF retrieval.kind = "raise" THEN recommendations
    ELSE IF retrieval.lessons = <<>> THEN recommendations
    ELSE IF \E i \in 1..Len(recommendations) :
               EnhanceRaises(recommendations[i], retrieval.lessons)
    THEN recommendations
    ELSE enhance_recommendations(recommendations, retrieval.lessons)

\* A crisis as retrieve_similar_crises reads it: its description is embedded,
\* its similarity_score is unset (None) until retrieval assigns it.
StoredCrisis(crisis_id, crisis_description) ==
    [crisis_id |-> crisis_id, crisis_description |-> crisis_description,
     similarity_score |-> None]

\* _cosine_similarity of the context's embedding with the embedding of a
\* description.  The embedding is a function of the text alone (a SHA-256
\* digest, centred and normalised), so equal descriptions score equally; a
\* cosine of centred vectors may be negative.
_cosine_similarity(crisis_description) ==
    CASE crisis_description = "flu surge" -> Rat(7, 10)
      [] crisis_description = "heat wave" -> Rat(3, 10)
      [] OTHER -> Rat(-1, 10)

\* seq[:k] in Python: the first k items, or all but the last -k when k < 0.
SliceTo(seq, k) ==
    FirstN(seq, IF k >= 0 THEN Min(k, Len(seq)) ELSE Max(0, Len(seq) + k))

\* The first top_k crises in the order the store returned them.
RetrieveUnsorted(top_k, historical_crises) ==
    SliceTo([i \in 1..Len(historical_crises) |->
                [historical_crises[i] EXCEPT !.similarity_score =
                    _cosine_similarity(historical_crises[i].crisis_description)]],
            top_k)

\* list.sort(key=..., reverse=True) is stable: equal keys keep their order.
retrieve_similar_crises(top_k, historical_crises) ==
    IF historical_crises = <<>> THEN <<>>
    ELSE LET scored == [i \in 1..Len(historical_crises) |->
                          [historical_crises[i] EXCEPT !.similarity_score =
                              _cosine_similarity(historical_crises[i].crisis_description)]]
         IN  SliceTo(SortDesc(scored, [i \in 1..Len(scored) |-> scored[i].similarity_score]),
                     top_k)

\* _prepare_recommendation_context sums the three numeric columns of the
\* context before the try block: a None among them raises TypeError.
ContextRaises(historical_context) ==
    \E i \in 1..Len(historical_context) :
        \/ historical_context[i].beds_occupied = None
        \/ historical_context[i].admissions = None
        \/ historical_context[i].staff_on_duty = None

\* generate_recommendations after the cache miss, up to the returned list.
RecommendationsCompute(bed_stress, staff_risk, historical_context, response, retrieval) ==
    LET generated == _generate_ai_recommendations(bed_stress, staff_risk, response)
    IN  IF ContextRaises(historical_context) THEN Raised
        ELSE IF Len(generated) # 3 /\ EnsureThreeRaises(generated) THEN Raised
        ELSE LET three == IF Len(generated) # 3
                          THEN _ensure_three_recommendations(generated, bed_stress,
                                                             staff_risk)
                          ELSE generated
                 ranked == _rank_recommendations_by_impact_cost_ratio(three)
             IN  Returned(_enhance_with_rag(ranked, retrieval))

(***************************************************************************)
(* The cache (redis_client.py) and the keys of the engine                   *)
(***************************************************************************)
prediction_cache_ttl == 900
staff_risk_cache_ttl == 600
dashboard_cache_ttl == 30

\* "prediction:" + md5(operation:arg:arg...) of the arguments given.
_generate_cache_key(operation, args) ==
    [ns |-> "prediction", id |-> <<operation>> \o args]

\* The arguments each operation hands to _generate_cache_key.
KeyArgs(operation, args) ==
    IF operation = "forecast" THEN args ELSE SubSeq(args, 1, 2)

\* The key each operation looks up and writes: get_dashboard_data uses the
\* literal "dashboard:data", the others _generate_cache_key.
CacheKey(operation, args) ==
    IF operation = "dashboard" THEN [ns |-> "dashboard", id |-> <<"data">>]
    ELSE _generate_cache_key(operation, KeyArgs(operation, args))

\* Staff risk written with the TTL of the predictions.
TTLOfPredictions(operation) ==
    IF operation = "dashboard" THEN dashboard_cache_ttl ELSE prediction_cache_ttl

TTL(operation) ==
    IF operation = "staff_risk" THEN staff_risk_cache_ttl
    ELSE IF operation = "dashboard" THEN dashboard_cache_ttl
    ELSE prediction_cache_ttl

\* json.dumps of what the operation hands to set: BedForecast.__dict__ and
\* StaffRiskScore.__dict__ hold datetime (and DailyPrediction) objects,
\* which json.dumps rejects; the list of Recommendation.__dict__ holds
\* strings and numbers only.  The dashboard snapshot holds the __dict__ of
\* each DailyPrediction and StaffRiskScore (datetime fields) and the
\* forecast's generated_at as a string: it serializes when it has no day.
Serializable(operation, value) ==
    \/ operation = "recommendations"
    \/ /\ operation = "dashboard"
       /\ value[1].seven_day_forecast.predictions = <<>>

\* get: the entries alive under the key (none or one).
RedisGet(c, key, clock) == {e \in c : e.key = key /\ clock < e.expires}

\* setex
RedisSet(c, key, value, ttl, clock, writer, gen, read) ==
    {e \in c : e.key # key}
    \cup {[key |-> key, value |-> value, expires |-> clock + ttl,
           writer |-> writer, gen |-> gen, read |-> read]}

\* keys("prediction:*")
RedisKeys(c, clock) ==
    {e.key : e \in {x \in c : x.key.ns = "prediction" /\ clock < x.expires}}

\* A delete that removes nothing.
DeleteNothing(c, keys) == c

\* delete(*keys)
RedisDelete(c, keys) == {e \in c : e.key \notin keys}

\* set of redis_client: nothing is stored when json.dumps or Redis fails.
CacheAfterSet(c, up, operation, args, value, clock, gen, read) ==
    IF up /\ Serializable(operation, value)
    THEN RedisSet(c, CacheKey(operation, args),
                  value, TTL(operation), clock, args, gen, read)
    ELSE c

(***************************************************************************)
(* The history store                                                        *)
(***************************************************************************)
\* _get_historical_data: the rows in date order, [] when the query fails.
_get_historical_data(table, ok) == IF ok THEN table ELSE <<>>

\* _get_historical_overloads: the rows with overload_flag, [] on failure.
_get_historical_overloads(table, ok) ==
    LET Overload(r) == r.overload_flag
    IN  IF ok THEN Filter(table, [k \in DOMAIN table |-> Overload(table[k])], Len(table)) ELSE <<>>

(***************************************************************************)
(* simulate_scenario                                                        *)
(***************************************************************************)
\* A validation that rejects the upper end of the sick-rate range.
SickRateBelowHalf(sick_rate) ==
    RLe(RInt(0), sick_rate) /\ RLt(sick_rate, Rat(1, 2))

SickRateValid(sick_rate) ==
    RLe(RInt(0), sick_rate) /\ RLe(sick_rate, Rat(1, 2))

AdmissionSurgeValid(admission_surge) ==
    RLe(Rat(-3, 10), admission_surge) /\ RLe(admission_surge, RInt(1))

RangeError == [status |-> "range_error", value |-> <<>>]

\* prediction.confidence * 0.85 on a value that is no number raises.
AdjustRaises(baseline_forecast) ==
    \E i \in 1..Len(baseline_forecast.predictions) :
        baseline_forecast.predictions[i].confidence.t # "num"

_apply_scenario_adjustments(baseline_forecast, sick_rate, admission_surge, clock) ==
    [predictions |->
        [i \in 1..Len(baseline_forecast.predictions) |->
            LET prediction == baseline_forecast.predictions[i]
                adjusted_beds ==
                    Max(0, RTrunc(RMul(prediction.predicted_beds,
                                       RAdd(RInt(1),
                                            RMul(admission_surge, Rat(8, 10))))))
                adjusted_bed_stress == _calculate_bed_stress(RInt(adjusted_beds))
            IN  [date |-> prediction.date,
                 predicted_beds |-> RInt(adjusted_beds),
                 bed_stress |-> adjusted_bed_stress,
                 confidence |->
                     [t |-> "num",
                      v |-> RMul(prediction.confidence.v, Rat(85, 100))],
                 is_high_risk |-> RLt(RInt(85), adjusted_bed_stress)]],
     overall_confidence |-> RMul(baseline_forecast.overall_confidence, Rat(85, 100)),
     generated_at |-> clock]

\* _generate_impact_summary divides the sum of the bed stresses by
\* len(baseline_forecast.predictions): a forecast of no day raises
\* ZeroDivisionError.
ImpactSummaryRaises(baseline_forecast) == baseline_forecast.predictions = <<>>

\* What a call of an operation returns when its key is looked up in c
\* first: the entry's value, or else what the operation computes.
Through(c, operation, args, clock, computed) ==
    LET found == RedisGet(c, _generate_cache_key(operation,
                                                 KeyArgs(operation, args)), clock)
    IN  IF found # {} THEN Returned((CHOOSE e \in found : TRUE).value)
        ELSE computed

\* simulate_scenario after the validation of its parameters.
ScenarioCompute(c, sick_rate, admission_surge, table, ok, response, day, clock) ==
    LET historical_data == _get_historical_data(table, ok)
        baseline_forecast ==
            Through(c, "forecast", <<7, <<historical_data>>>>, clock,
                    ForecastCompute(7, historical_data, response, day, clock))
        recent_data == LastN(historical_data, 7)
        n == Len(recent_data)
        avg_admissions == IF historical_data # <<>>
                          THEN Rat(SumOver(recent_data, "admissions", n), n)
                          ELSE RInt(100)
        avg_staff == IF historical_data # <<>>
                     THEN Rat(SumOver(recent_data, "staff_on_duty", n), n)
                     ELSE RInt(30)
        overloads == _get_historical_overloads(table, ok)
        base_adm == RTrunc(avg_admissions)
        base_staff == RTrunc(avg_staff)
        baseline_staff_risk ==
            Through(c, "staff_risk", <<base_adm, base_staff, <<overloads>>>>, clock,
                    StaffRiskCompute(base_adm, base_staff, overloads, day, clock))
        scenario_staff == RTrunc(RMul(avg_staff, RSub(RInt(1), sick_rate)))
        scenario_admissions ==
            RTrunc(RMul(avg_admissions, RAdd(RInt(1), admission_surge)))
        scenario_staff_risk ==
            Through(c, "staff_risk",
                    <<scenario_admissions, Max(1, scenario_staff), <<overloads>>>>,
                    clock,
                    StaffRiskCompute(scenario_admissions, Max(1, scenario_staff),
                                     overloads, day, clock))
    IN  IF baseline_forecast.status # "ok" THEN Raised
        ELSE IF AdjustRaises(baseline_forecast.value) THEN Raised
        ELSE IF ImpactSummaryRaises(baseline_forecast.value) THEN Raised
        ELSE Returned(
               [baseline_forecast |-> baseline_forecast.value,
                scenario_forecast |->
                    _apply_scenario_adjustments(baseline_forecast.value, sick_rate,
                                                admission_surge, clock),
                baseline_staff_risk |-> baseline_staff_risk.value,
                scenario_staff_risk |-> scenario_staff_risk.value,
                calls |->
                    <<[operation |-> "forecast",
                       args |-> <<7, <<historical_data>>>>,
                       value |-> baseline_forecast.value],
                      [operation |-> "staff_risk",
                       args |-> <<base_adm, base_staff, <<overloads>>>>,
                       value |-> baseline_staff_risk.value],
                      [operation |-> "staff_risk",
                       args |-> <<scenario_admissions, Max(1, scenario_staff),
                                  <<overloads>>>>,
                       value |-> scenario_staff_risk.value]>>])

\* The cache after the set of each nested call, in order.
RECURSIVE AfterSets(_, _, _, _, _, _)
AfterSets(c, calls, i, clock, gen, read) ==
    IF i = 0 THEN c
    ELSE CacheAfterSet(AfterSets(c, calls, i - 1, clock, gen, read), TRUE,
                       calls[i].operation, calls[i].args, calls[i].value,
                       clock, gen, read)

(***************************************************************************)
(* get_dashboard_data                                                       *)
(***************************************************************************)
\* The sum of a field (a rational) over the first i items of a list.
RECURSIVE RSumOver(_, _, _)
RSumOver(seq, field, i) ==
    IF i = 0 THEN RInt(0) ELSE RAdd(seq[i][field], RSumOver(seq, field, i - 1))

\* One trend of _calculate_trend_indicators: the mean of the last three
\* items against the mean of the first three, with a 5% threshold.
Trend(items, field) ==
    IF Len(items) >= 6
    THEN LET first_half == RDiv(RSumOver(FirstN(items, 3), field, 3), RInt(3))
             second_half == RDiv(RSumOver(LastN(items, 3), field, 3), RInt(3))
         IN  IF RLt(RMul(first_half, Rat(105, 100)), second_half) THEN "up"
             ELSE IF RLt(second_half, RMul(first_half, Rat(95, 100))) THEN "down"
             ELSE "stable"
    ELSE "stable"

_calculate_trend_indicators(forecast, staff_risks) ==
    [bed_stress |-> Trend(forecast.predictions, "bed_stress"),
     staff_risk |-> Trend(staff_risks, "risk_score")]

\* How many items of a list have the (boolean) field set.
RECURSIVE CountOver(_, _, _)
CountOver(seq, field, i) ==
    IF i = 0 THEN 0
    ELSE (IF seq[i][field] THEN 1 ELSE 0) + CountOver(seq, field, i - 1)

\* The result of get_dashboard_data: the snapshot (value, a list of the one
\* DashboardData), and the nested calls whose results the engine handed to
\* the cache (calls).
DashboardResult(historical_data, overloads, current_staff, forecast, risks, needed, recommendations) ==
    LET predictions == forecast.predictions
        bed_stress_current == IF predictions # <<>> THEN predictions[1].bed_stress
                              ELSE RInt(0)
        staff_risk_current == IF risks # <<>> THEN risks[1].risk_score ELSE RInt(0)
    IN  [status |-> "ok",
         value |->
           <<[bed_stress_current |-> bed_stress_current,
              staff_risk_current |-> staff_risk_current,
              active_alerts_count |->
                  CountOver(predictions, "is_high_risk", Len(predictions))
                  + CountOver(risks, "is_critical", Len(risks)),
              recommendations_count |-> Len(recommendations),
              seven_day_forecast |-> forecast,
              seven_day_staff_risk |-> risks,
              trend_indicators |-> _calculate_trend_indicators(forecast, risks)]>>,
         calls |->
            <<[operation |-> "forecast", args |-> <<7, <<historical_data>>>>,
               value |-> forecast]>>
            \o [i \in 1..Len(predictions) |->
                   [operation |-> "staff_risk",
                    args |-> <<RTrunc(RMul(predictions[i].predicted_beds, Rat(3, 10))),
                               current_staff, <<overloads>>>>,
                    value |-> risks[i]]]
            \o (IF needed
                THEN <<[operation |-> "recommendations",
                        args |-> <<bed_stress_current, staff_risk_current,
                                   <<historical_data>>>>,
                        value |-> recommendations]>>
                ELSE <<>>)]

DashboardRaised == [status |-> "raised", value |-> <<>>, calls |-> <<>>]

\* get_dashboard_data once the seven staff risks are there: recommendations
\* are asked for when the first day is beyond a threshold.
DashboardAfterStaffRisk(c, historical_data, overloads, current_staff, forecast, risks, rec_response, retrieval, clock) ==
    LET bed_stress_current == IF forecast.predictions # <<>>
                              THEN forecast.predictions[1].bed_stress ELSE RInt(0)
        staff_risk_current == IF risks # <<>> THEN risks[1].risk_score ELSE RInt(0)
        needed == \/ RLt(RInt(85), bed_stress_current)
                  \/ RLt(RInt(75), staff_risk_current)
    IN  CHOOSE result \in
          {IF recommendations.status # "ok" THEN DashboardRaised
           ELSE DashboardResult(historical_data, overloads, current_staff, forecast,
                                risks, needed, recommendations.value) :
             recommendations \in
               {IF needed
                THEN Through(c, "recommendations",
                             <<bed_stress_current, staff_risk_current,
                               <<historical_data>>>>, clock,
                             RecommendationsCompute(bed_stress_current,
                                                    staff_risk_current,
                                                    historical_data, rec_response,
                                                    retrieval))
                ELSE Returned(<<>>)}} : TRUE

\* get_dashboard_data once the forecast is there: a staff risk for each
\* day, for 30% of the day's beds as admissions and the recent mean staff.
DashboardAfterForecast(c, historical_data, overloads, seven_day_forecast, rec_response, retrieval, day, clock) ==
    LET recent_data == LastN(historical_data, 7)
        avg_staff == IF historical_data # <<>>
                     THEN Rat(SumOver(recent_data, "staff_on_duty", Len(recent_data)),
                              Len(recent_data))
                     ELSE RInt(30)
    IN  IF seven_day_forecast.status # "ok" THEN DashboardRaised
        ELSE CHOOSE result \in
               {DashboardAfterStaffRisk(c, historical_data, overloads,
                                        RTrunc(avg_staff), seven_day_forecast.value,
                                        risks, rec_response, retrieval, clock) :
                  risks \in
                    {[i \in 1..Len(seven_day_forecast.value.predictions) |->
                        LET estimated_admissions ==
                              RTrunc(RMul(seven_day_forecast.value.predictions[i].predicted_beds,
                                          Rat(3, 10)))
                        IN  Through(c, "staff_risk",
                                    <<estimated_admissions, RTrunc(avg_staff),
                                      <<overloads>>>>, clock,
                                    StaffRiskCompute(estimated_admissions,
                                                     RTrunc(avg_staff), overloads,
                                                     day, clock)).value]}} : TRUE

\* get_dashboard_data after the cache miss.
DashboardCompute(c, table, ok, response, rec_response, retrieval, day, clock) ==
    CHOOSE result \in
      {DashboardAfterForecast(c, historical_data, _get_historical_overloads(table, ok),
                              seven_day_forecast, rec_response, retrieval, day, clock) :
         historical_data \in {_get_historical_data(table, ok)},
         seven_day_forecast \in
           {Through(c, "forecast", <<7, <<_get_historical_data(table, ok)>>>>, clock,
                    ForecastCompute(7, _get_historical_data(table, ok), response,
                                    day, clock))}} : TRUE

(***************************************************************************)
(* The engine under concurrent requests                                     *)
(***************************************************************************)
\* The handlers are coroutines that never yield while the engine works, so
\* a server process runs one request at a time.
Slots == {1}

NoOut == [status |-> "none", value |-> <<>>]

\* A request slot.  pc is the position of the handler; out what it returned
\* (status "ok"), or that it raised.  History of the request: hit (answered
\* from the cache), backend (generate_content calls made), effects (what it
\* touched), writer and gen (who wrote the entry it was answered from, and
\* after how many invalidations), floor (invalidations that had returned
\* True when it began), floorAt (when it began), overlap (an invalidation ran while it was in
\* flight), expect (the result the cache was due to hold for it), expires
\* (until when the cache is due to hold its result), cacheFailed (its get or
\* its set failed inside redis_client), failed (its generate_content call
\* gave no text), read (how many rows the history store held when the result
\* it returns was computed).
IdleReq ==
    [pc |-> "idle", op |-> "none", args |-> <<>>, out |-> NoOut, hit |-> FALSE,
     backend |-> 0, effects |-> {}, writer |-> <<>>, gen |-> 0, floor |-> 0,
     floorAt |-> 0, overlap |-> FALSE, expect |-> NoOut, expires |-> 0,
     cacheFailed |-> FALSE, failed |-> FALSE, read |-> 0]

NoMemo == [id |-> <<"none", <<>>>>, out |-> NoOut, expires |-> 0]

\* The invalidate_cache call.  History: begun (calls begun so far), lastTrue
\* (the last call that returned True, by its number), before (the request
\* whose result was the last returned before the last call began), failed
\* (Redis failed under the call in flight), stored (for each call begun, how
\* many rows the history store held then).
IdleInv == [pc |-> "idle", keys |-> {}, result |-> FALSE, begun |-> 0,
            lastTrue |-> 0, before |-> <<>>, failed |-> FALSE, stored |-> <<>>]

NoProbe == [fn |-> "none", input |-> <<>>, out |-> NoOut, done |-> FALSE]

H1 == <<HospitalRecord(1, 100, 400, 30, FALSE), HospitalRecord(2, 120, -1, 35, TRUE)>>
H2 == <<HospitalRecord(2, 300, 480, 20, TRUE)>>

\* The backend's answers to the requests of the engine: unavailable, or an
\* array whose element is no object.
ForecastResponses ==
    {Response("none", <<>>),
     Response("list", <<DayItem(FALSE, JAbsent, JAbsent)>>)}

GoodRecs ==
    <<RecItem(TRUE, Title("Open Overflow Ward"), JNum(4000), JNum(80), JNum(3)),
      RecItem(TRUE, Title("Hire Agency Nurses"), JNum(9000), JNum(90), JNum(1)),
      RecItem(TRUE, Title("ENHANCE DISCHARGE PLANNING"), JNum(0), JNum(40), JNum(2))>>

\* No text (the call failed), three well-formed recommendations, or one
\* whose title is a number.
RecResponses ==
    {Response("none", <<>>),
     Response("list", GoodRecs),
     Response("list", <<RecItem(TRUE, JNum(5), JAbsent, JAbsent, JAbsent)>>)}

Lessons ==
    <<CrisisLesson(1, <<Action("Called in agency nurses", {"agency", "nurses"}),
                       Action("Opened overflow ward", {"overflow", "ward"}),
                       Action("Staff overtime approved", {"staff"})>>,
                   "Occupancy back under 85% in three days")>>

Retrievals ==
    {Retrieval("lessons", <<>>), Retrieval("lessons", Lessons)}

\* The requests callers make, as a list: [op, args].
Requests ==
    <<[op |-> "forecast", args |-> <<7, <<>>>>],
      [op |-> "staff_risk", args |-> <<100, 30, <<>>>>],
      [op |-> "staff_risk", args |-> <<100, 30, <<H2>>>>],
      [op |-> "recommendations", args |-> <<RInt(90), RInt(80), <<>>>>],
      [op |-> "recommendations", args |-> <<RInt(90), RInt(80), <<H2>>>>]>>

\* The requests of the scenario study: the two corners of the accepted
\* ranges, a sick rate and a surge beyond them, and a recommendation request
\* that fills the cache.
ScenarioRequests ==
    <<[op |-> "recommendations", args |-> <<RInt(90), RInt(80), <<>>>>],
      [op |-> "scenario", args |-> <<RInt(0), Rat(-3, 10)>>],
      [op |-> "scenario", args |-> <<Rat(1, 2), RInt(1)>>],
      [op |-> "scenario", args |-> <<Rat(3, 5), RInt(0)>>],
      [op |-> "scenario", args |-> <<Rat(1, 5), Rat(11, 10)>>]>>

TickStep == prediction_cache_ttl

\* The engine before any request, at the clock's origin on a Friday.
EngineAtRest ==
    /\ store = H1
    /\ cache = {}
    /\ now = 0
    /\ today = 4
    /\ req = [s \in Slots |-> IdleReq]
    /\ inv = IdleInv
    /\ memo = NoMemo
    /\ started = 0

Init ==
    /\ EngineAtRest
    /\ probe = NoProbe

\* A caller makes one of the requests listed.
Start(s, requests) ==
    /\ req[s].pc = "idle"
    /\ started < MaxReqs
    /\ \A t \in Slots : t < s => req[t].pc # "idle"
    /\ \E i \in DOMAIN requests :
         LET r == requests[i]
         IN
         req' = [req EXCEPT ![s] =
                   [IdleReq EXCEPT !.pc = IF r.op = "scenario" THEN "run" ELSE "get",
                                   !.op = r.op, !.args = r.args,
                                   !.floor = inv.lastTrue,
                                   !.floorAt = now,
                                   !.overlap = inv.pc = "delete"]]
    /\ started' = started + 1
    /\ UNCHANGED <<store, cache, now, today, inv, probe, memo>>

StartRequest(s) == Start(s, Requests)

StartScenarioRequest(s) == Start(s, ScenarioRequests)

\* redis_client.get under the key of the request.
CacheGet(s) ==
    /\ req[s].pc = "get"
    /\ LET r == req[s]
           key == CacheKey(r.op, r.args)
           found == RedisGet(cache, key, now)
           due == IF memo.id = <<r.op, r.args>> /\ now < memo.expires
                  THEN memo.out ELSE NoOut
       IN  req' = [req EXCEPT ![s] =
               IF found # {}
               THEN LET e == CHOOSE x \in found : TRUE
                    IN  [r EXCEPT !.pc = "done", !.out = Returned(e.value),
                                  !.hit = TRUE, !.writer = e.writer,
                                  !.gen = e.gen, !.expires = e.expires,
                                  !.read = e.read,
                                  !.effects = @ \cup {"cache"}, !.expect = due]
               ELSE [r EXCEPT !.pc = "compute",
                              !.effects = @ \cup {"cache"}, !.expect = due]]
    /\ UNCHANGED <<store, cache, now, today, inv, probe, memo, started>>

\* The handler of a request after the cache miss, up to the value it will
\* return; the clock moves on while it works.
Computed(s, out, touched, calls, failed) ==
    /\ req' = [req EXCEPT ![s] =
                 [@ EXCEPT !.pc = IF out.status = "ok" THEN "set" ELSE "done",
                           !.out = out,
                           !.backend = @ + calls,
                           !.failed = failed,
                           !.read = Len(store),
                           !.effects = @ \cup touched]]
    /\ now' = now + 1
    /\ UNCHANGED <<store, cache, today, inv, probe, memo, started>>

ComputeForecast(s) ==
    /\ req[s].pc = "compute" /\ req[s].op = "forecast"
    /\ now < MaxTime
    /\ \E ok \in BOOLEAN, response \in ForecastResponses :
         LET r == req[s]
             historical_data == IF r.args[2] = <<>>
                                THEN _get_historical_data(store, ok)
                                ELSE r.args[2][1]
         IN  /\ r.args[2] # <<>> => ok
             /\ Computed(s, ForecastCompute(r.args[1], historical_data, response,
                                            today, now),
                         {"backend"} \cup (IF r.args[2] = <<>> THEN {"history"}
                                           ELSE {}),
                         GenerateContentCalls(response), CallFailed(response))

ComputeStaffRisk(s) ==
    /\ req[s].pc = "compute" /\ req[s].op = "staff_risk"
    /\ now < MaxTime
    /\ \E ok \in BOOLEAN :
         LET r == req[s]
             historical_overloads == IF r.args[3] = <<>>
                                     THEN _get_historical_overloads(store, ok)
                                     ELSE r.args[3][1]
         IN  /\ r.args[3] # <<>> => ok
             /\ Computed(s, StaffRiskCompute(r.args[1], r.args[2],
                                             historical_overloads, today, now),
                         IF r.args[3] = <<>> THEN {"history"} ELSE {},
                         0, FALSE)

ComputeRecommendations(s) ==
    /\ req[s].pc = "compute" /\ req[s].op = "recommendations"
    /\ now < MaxTime
    /\ \E ok \in BOOLEAN, response \in RecResponses, retrieval \in Retrievals :
         LET r == req[s]
             historical_context == IF r.args[3] = <<>>
                                   THEN _get_historical_data(store, ok)
                                   ELSE r.args[3][1]
         IN  /\ r.args[3] # <<>> => ok
             /\ Computed(s, RecommendationsCompute(r.args[1], r.args[2],
                                                   historical_context, response,
                                                   retrieval),
                         {"backend"} \cup (IF r.args[3] = <<>> THEN {"history"}
                                           ELSE {}),
                         IF ContextRaises(historical_context) THEN 0
                         ELSE GenerateContentCalls(response),
                         ~ContextRaises(historical_context) /\ CallFailed(response))

\* redis_client.set of the result under the key of the request.
CacheSet(s) ==
    /\ req[s].pc = "set"
    /\ cache' = CacheAfterSet(cache, TRUE, req[s].op, req[s].args,
                              req[s].out.value, now, inv.begun, req[s].read)
    /\ req' = [t \in Slots |->
                 IF t = s
                 THEN [req[t] EXCEPT !.pc = "done",
                                     !.effects = @ \cup {"cache"},
                                     !.expires = now + TTL(req[s].op)]
                 ELSE [req[t] EXCEPT !.expires = 0]]
    /\ memo' = NoMemo
    /\ UNCHANGED <<store, now, today, inv, probe, started>>

\* The request returns to its caller.
Return(s) ==
    /\ req[s].pc = "done"
    /\ memo' = IF req[s].out.status = "ok" /\ req[s].expires > 0
               THEN [id |-> <<req[s].op, req[s].args>>, out |-> req[s].out,
                     expires |-> req[s].expires]
               ELSE memo
    /\ req' = [req EXCEPT ![s] = IdleReq]
    /\ UNCHANGED <<store, cache, now, today, inv, probe, started>>

\* simulate_scenario, from the validation of its parameters to its result.
ScenarioRun(s) ==
    /\ req[s].pc = "run"
    /\ LET sick_rate == req[s].args[1]
           admission_surge == req[s].args[2]
       IN  IF ~SickRateValid(sick_rate) \/ ~AdmissionSurgeValid(admission_surge)
           THEN /\ req' = [req EXCEPT ![s] =
                             [@ EXCEPT !.pc = "done", !.out = RangeError]]
                /\ UNCHANGED <<cache, now>>
           ELSE /\ now < MaxTime
                /\ \E ok \in BOOLEAN, response \in ForecastResponses :
                     LET out == ScenarioCompute(cache, sick_rate, admission_surge,
                                                store, ok, response, today, now)
                     IN  /\ req' = [req EXCEPT ![s] =
                                      [@ EXCEPT !.pc = "done", !.out = out,
                                                !.backend = GenerateContentCalls(response),
                                                !.failed = CallFailed(response),
                                                !.read = Len(store),
                                                !.effects = {"history", "cache",
                                                             "backend"}]]
                         /\ cache' = IF out.status = "ok"
                                     THEN AfterSets(cache, out.value.calls,
                                                    Len(out.value.calls), now,
                                                    inv.begun, Len(store))
                                     ELSE cache
                /\ now' = now + 1
    /\ UNCHANGED <<store, today, inv, probe, memo, started>>

\* invalidate_cache begins: keys("prediction:*").
InvStart ==
    /\ inv.pc = "idle"
    /\ inv.begun < MaxInv
    /\ \E up \in BOOLEAN :
         inv' = IF up
                THEN [inv EXCEPT !.pc = "delete", !.keys = RedisKeys(cache, now),
                                 !.stored = Append(@, Len(store)),
                                 !.begun = @ + 1, !.before = IF memo.id[1] = "forecast" THEN memo.id ELSE <<>>]
                ELSE [inv EXCEPT !.pc = "done", !.result = FALSE, !.begun = @ + 1,
                                 !.stored = Append(@, Len(store)),
                                 !.failed = TRUE,
                                 !.before = IF memo.id[1] = "forecast" THEN memo.id ELSE <<>>]
    /\ req' = [s \in Slots |->
                 IF req[s].pc \in {"idle", "done"}
                 THEN [req[s] EXCEPT !.expires = 0]
                 ELSE [req[s] EXCEPT !.expires = 0, !.overlap = TRUE]]
    /\ memo' = NoMemo
    /\ UNCHANGED <<store, cache, now, today, probe, started>>

\* invalidate_cache goes on: delete(*keys) of the keys found.
InvDelete ==
    /\ inv.pc = "delete"
    /\ \E up \in BOOLEAN :
         /\ cache' = IF up THEN RedisDelete(cache, inv.keys) ELSE cache
         /\ inv' = [inv EXCEPT !.pc = "done", !.result = up, !.keys = {},
                               !.failed = ~up]
    /\ UNCHANGED <<store, now, today, req, probe, memo, started>>

\* invalidate_cache returns.
InvReturn ==
    /\ inv.pc = "done"
    /\ inv' = [inv EXCEPT !.pc = "idle", !.result = FALSE, !.failed = FALSE,
                          !.lastTrue = IF inv.result THEN inv.begun ELSE @]
    /\ UNCHANGED <<store, cache, now, today, req, probe, memo, started>>

\* Time passes; Redis drops the entries whose time to live is over.
Tick ==
    /\ now + TickStep <= MaxTime
    /\ now' = now + TickStep
    /\ cache' = {e \in cache : now' < e.expires}
    /\ UNCHANGED <<store, today, req, inv, probe, memo, started>>

Next ==
    \/ \E s \in Slots : StartRequest(s)
    \/ \E s \in Slots : CacheGet(s)
    \/ \E s \in Slots : ComputeForecast(s)
    \/ \E s \in Slots : ComputeStaffRisk(s)
    \/ \E s \in Slots : ComputeRecommendations(s)
    \/ \E s \in Slots : CacheSet(s)
    \/ \E s \in Slots : Return(s)
    \/ InvStart
    \/ InvDelete
    \/ InvReturn
    \/ Tick

Spec == Init /\ [][Next]_vars

\* The engine under scenario requests.
NextScenario ==
    \/ \E s \in Slots : StartScenarioRequest(s)
    \/ \E s \in Slots : CacheGet(s)
    \/ \E s \in Slots : ComputeRecommendations(s)
    \/ \E s \in Slots : CacheSet(s)
    \/ \E s \in Slots : Return(s)
    \/ \E s \in Slots : ScenarioRun(s)
    \/ InvStart
    \/ InvDelete
    \/ InvReturn
    \/ Tick

SpecScenario == Init /\ [][NextScenario]_vars

\* redis_client.get when Redis fails: the exception is caught inside get,
\* which returns None; the handler goes on as after a miss.
CacheGetFails(s) ==
    /\ req[s].pc = "get"
    /\ req' = [req EXCEPT ![s] =
                 [@ EXCEPT !.pc = "compute", !.effects = @ \cup {"cache"},
                           !.cacheFailed = TRUE]]
    /\ UNCHANGED <<store, cache, now, today, inv, probe, memo, started>>

\* redis_client.set when Redis fails: the exception is caught inside set,
\* which returns False; nothing is stored and the handler returns its result.
CacheSetFails(s) ==
    /\ req[s].pc = "set"
    /\ req' = [req EXCEPT ![s] =
                 [@ EXCEPT !.pc = "done", !.effects = @ \cup {"cache"},
                           !.cacheFailed = TRUE]]
    /\ UNCHANGED <<store, cache, now, today, inv, probe, memo, started>>

\* The engine over a Redis that may fail under any call.
NextCacheFailure ==
    \/ \E s \in Slots : StartRequest(s)
    \/ \E s \in Slots : CacheGet(s)
    \/ \E s \in Slots : CacheGetFails(s)
    \/ \E s \in Slots : ComputeForecast(s)
    \/ \E s \in Slots : ComputeStaffRisk(s)
    \/ \E s \in Slots : ComputeRecommendations(s)
    \/ \E s \in Slots : CacheSet(s)
    \/ \E s \in Slots : CacheSetFails(s)
    \/ \E s \in Slots : Return(s)
    \/ InvStart
    \/ InvDelete
    \/ InvReturn
    \/ Tick

SpecCacheFailure == Init /\ [][NextCacheFailure]_vars

(***************************************************************************)
(* _handle_missing_data on its own: every record sequence of at most        *)
(* MaxLen records whose fields are present, missing (None, -1) or another   *)
(* negative number.                                                         *)
(***************************************************************************)
RepairCells ==
    [admissions : {None, -1, -5, 4}, beds_occupied : {-1, 7},
     staff_on_duty : {None, 6}]

\* The records whose fields are cells, on consecutive days.
Records(cells) ==
    [i \in DOMAIN cells |->
        HospitalRecord(i, cells[i].admissions, cells[i].beds_occupied,
                       cells[i].staff_on_duty, FALSE)]

InitRepair ==
    /\ EngineAtRest
    /\ \E n \in 0..MaxLen :
         \E cells \in [1..n -> RepairCells] :
            probe = [fn |-> "repair", input |-> Records(cells), out |-> NoOut,
                     done |-> FALSE]

Repair ==
    /\ probe.fn = "repair" /\ ~probe.done
    /\ probe' = [probe EXCEPT !.out = Returned(_handle_missing_data(probe.input)),
                              !.done = TRUE]
    /\ UNCHANGED <<store, cache, now, today, req, inv, memo, started>>

NextRepair == Repair

SpecRepair == InitRepair /\ [][NextRepair]_vars

(***************************************************************************)
(* forecast_bed_demand after a cache miss, on its own: every history,       *)
(* backend answer and day of the week below.                                *)
(***************************************************************************)
H3 == <<HospitalRecord(1, None, 450, 30, FALSE), HospitalRecord(2, 90, -5, None, TRUE),
        HospitalRecord(3, 110, 430, -1, FALSE)>>

Days(n, beds, confidence) == [i \in 1..n |-> DayItem(TRUE, beds, confidence)]

ForecastAnswers ==
    {Response("none", <<>>), Response("raise", <<>>), Response("empty", <<>>),
     Response("not_json", <<>>), Response("scalar", <<>>),
     Response("list", <<>>),
     Response("list", Days(3, JNum(400), JNum(70))),
     Response("list", Days(7, JNum(400), JNum(70))),
     Response("list", Days(9, JNum(450), JNum(70))),
     Response("list", Days(7, JNum(-5), JStr)),
     Response("list", Days(7, JAbsent, JAbsent)),
     Response("list", Days(7, JStr, JNum(70))),
     Response("list", Days(7, JNull, JNum(70))),
     Response("list", [i \in 1..7 |-> DayItem(FALSE, JAbsent, JAbsent)])}

InitForecast ==
    /\ EngineAtRest
    /\ \E h \in {<<>>, H1, H3}, r \in ForecastAnswers, d \in 0..6 :
         probe = [fn |-> "forecast",
                  input |-> [days_ahead |-> 7, history |-> h, response |-> r,
                             day |-> d],
                  out |-> NoOut, done |-> FALSE]

Forecast ==
    /\ probe.fn = "forecast" /\ ~probe.done
    /\ probe' = [probe EXCEPT
                   !.out = ForecastCompute(probe.input.days_ahead,
                                           probe.input.history,
                                           probe.input.response,
                                           probe.input.day, now),
                   !.done = TRUE]
    /\ UNCHANGED <<store, cache, now, today, req, inv, memo, started>>

NextForecast == Forecast

SpecForecast == InitForecast /\ [][NextForecast]_vars

(***************************************************************************)
(* generate_recommendations after a cache miss, on its own.                 *)
(***************************************************************************)
Item(title, cost, impact, priority) == RecItem(TRUE, Title(title), cost, impact, priority)

RecAnswers ==
    {Response("none", <<>>), Response("raise", <<>>), Response("not_json", <<>>),
     Response("scalar", <<>>),
     Response("list", <<>>),
     Response("list", GoodRecs),
     Response("list", <<Item("Open Overflow Ward", JNum(4000), JNum(80), JNum(1))>>),
     Response("list", <<Item("ENHANCE DISCHARGE PLANNING", JNum(500), JNum(70), JNum(7)),
                        Item("Optimize Staff Scheduling", JNum(-20), JNum(65), JNum(7))>>),
     Response("list", <<Item("Open Overflow Ward", JNum(4000), JNum(80), JNum(1)),
                        Item("Hire Agency Nurses", JNum(2000), JNum(40), JNum(1)),
                        Item("Enhance Discharge Planning", JNum(1000), JNum(20), JNum(1)),
                        Item("Preventive Maintenance Review", JNum(10), JNum(99), JNum(1))>>),
     Response("list", <<Item("Open Overflow Ward", JNum(4000), JNum(80), JNum(1)),
                        Item("Hire Agency Nurses", JNum(100), JNum(5), JNum(2)),
                        Item("Enhance Discharge Planning", JNum(1000), JNum(40), JNum(3))>>),
     Response("list", <<RecItem(TRUE, JAbsent, JAbsent, JAbsent, JAbsent),
                        RecItem(TRUE, JAbsent, JAbsent, JAbsent, JAbsent),
                        RecItem(TRUE, JAbsent, JNum(5000), JNum(100), JAbsent)>>),
     Response("list", <<RecItem(FALSE, JAbsent, JAbsent, JAbsent, JAbsent)>>),
     Response("list", <<Item("Open Overflow Ward", JStr, JNum(80), JNum(1))>>),
     Response("list", <<Item("Open Overflow Ward", JNum(4000), JNum(80), JNull)>>),
     Response("list", <<RecItem(TRUE, JNum(5), JNum(4000), JNum(80), JNum(1))>>),
     Response("list", <<RecItem(TRUE, JNum(5), JNum(4000), JNum(80), JNum(1)),
                        RecItem(TRUE, JNull, JNum(3000), JNum(80), JNum(2)),
                        Item("Hire Agency Nurses", JNum(9000), JNum(90), JNum(3))>>)}

RecRetrievals ==
    {Retrieval("raise", <<>>), Retrieval("lessons", <<>>),
     Retrieval("lessons", Lessons)}

InitRecs ==
    /\ EngineAtRest
    /\ \E b \in {RInt(0), RInt(82), Rat(925, 10), RInt(100)},
          r \in {RInt(0), RInt(72), RInt(85), RInt(100)},
          h \in {<<>>, H2, H3}, a \in RecAnswers, l \in RecRetrievals :
         probe = [fn |-> "recommendations",
                  input |-> [bed_stress |-> b, staff_risk |-> r, context |-> h,
                             response |-> a, retrieval |-> l],
                  out |-> NoOut, done |-> FALSE]

Recommend ==
    /\ probe.fn = "recommendations" /\ ~probe.done
    /\ probe' = [probe EXCEPT
                   !.out = RecommendationsCompute(probe.input.bed_stress,
                                                  probe.input.staff_risk,
                                                  probe.input.context,
                                                  probe.input.response,
                                                  probe.input.retrieval),
                   !.done = TRUE]
    /\ UNCHANGED <<store, cache, now, today, req, inv, memo, started>>

NextRecs == Recommend

SpecRecs == InitRecs /\ [][NextRecs]_vars

(***************************************************************************)
(* enhance_recommendations on its own: every list of at most MaxLen of the  *)
(* recommendations below, with each of the lesson lists below.              *)
(***************************************************************************)
EnhanceRecs ==
    <<Recommendation(Title("Open Overflow Ward"), "Open the overflow ward",
                     Rationale("Beds are short"), RInt(4000), RInt(80), 1, "6 hours"),
      Recommendation(Title("Hire Agency Nurses"), "Call the agency",
                     Rationale("Staff are short"), RInt(9000), RInt(90), 2, "4 hours"),
      Recommendation(Title("Preventive Maintenance Review"), "Review equipment",
                     Rationale("Moderate stress"), RInt(15000), RInt(55), 3, "1 week"),
      Recommendation(Title("Optimize Staff Scheduling"), "Review schedules",
                     [text |-> "Staffing appears adequate",
                      notes |-> <<[date |-> 0, action |-> "Shifts swapped",
                                   outcome |-> "No overload"]>>],
                     RInt(2000), RInt(65), 7, "24 hours")>>

\* Two lessons with three actions that name staff between them.
LessonsOnStaff ==
    <<CrisisLesson(2, <<Action("Staff overtime approved", {"staff"}),
                       Action("Redeployed staff from clinics", {"staff"})>>,
                   "Ratio restored in a day"),
      CrisisLesson(3, <<Action("Agency staff hired", {"agency", "staff"})>>,
                   "Agency cover for two weeks")>>

\* Four lessons; only the fourth names the agency nurses.
LessonsBeyondThree ==
    <<CrisisLesson(4, <<Action("Elective surgery postponed", {})>>, "Beds freed"),
      CrisisLesson(5, <<>>, "Nothing was done"),
      CrisisLesson(6, <<Action("Visiting hours cut", {})>>, "No effect"),
      CrisisLesson(7, <<Action("Called in agency nurses", {"agency", "nurses"})>>,
                   "Cover for a week")>>

EnhanceLessons == {<<>>, Lessons, LessonsOnStaff, LessonsBeyondThree}

InitEnhance ==
    /\ EngineAtRest
    /\ \E n \in 0..MaxLen :
         \E pick \in [1..n -> DOMAIN EnhanceRecs], l \in EnhanceLessons :
            probe = [fn |-> "enhance",
                     input |-> [recommendations |->
                                    [i \in 1..n |-> EnhanceRecs[pick[i]]],
                                lessons |-> l],
                     out |-> NoOut, done |-> FALSE]

Enhance ==
    /\ probe.fn = "enhance" /\ ~probe.done
    /\ probe' = [probe EXCEPT
                   !.out = Returned(enhance_recommendations(
                                        probe.input.recommendations,
                                        probe.input.lessons)),
                   !.done = TRUE]
    /\ UNCHANGED <<store, cache, now, today, req, inv, memo, started>>

NextEnhance == Enhance

SpecEnhance == InitEnhance /\ [][NextEnhance]_vars

(***************************************************************************)
(* simulate_scenario on its own, over an empty cache: every stored history, *)
(* backend answer and pair of parameters below.  The histories are rows as  *)
(* an upload stores them: integers, some of them zero or beyond capacity.   *)
(***************************************************************************)
HNoStaff == <<HospitalRecord(1, 4, 300, 0, FALSE)>>
HOneNurse == <<HospitalRecord(1, 50, 300, 1, FALSE), HospitalRecord(2, 50, 310, 1, TRUE)>>
HWellStaffed == <<HospitalRecord(1, 10, 300, 30, FALSE), HospitalRecord(2, 10, 310, 30, FALSE)>>
HOverCapacity == <<HospitalRecord(1, 200, 600, 40, TRUE), HospitalRecord(2, 220, 620, 45, TRUE)>>
HEmptyWards == <<HospitalRecord(1, 0, 0, 20, FALSE)>>
HBusy == <<HospitalRecord(1, 100, 425, 30, FALSE), HospitalRecord(2, 140, 460, 32, TRUE),
           HospitalRecord(3, 120, 440, 28, FALSE)>>

StoredHistories ==
    {<<>>, H1, H2, HNoStaff, HOneNurse, HWellStaffed, HOverCapacity, HEmptyWards,
     HBusy}

ScenarioAnswers ==
    {Response("none", <<>>),
     Response("list", <<>>),
     Response("list", Days(3, JNum(400), JNum(70))),
     Response("list", Days(7, JNum(425), JNum(70))),
     Response("list", Days(7, JNum(426), JNum(70))),
     Response("list", Days(7, JNum(-5), JNum(70))),
     Response("list", Days(7, JNum(600), JNum(120)))}

ScenarioParameters ==
    {<<RInt(0), RInt(0)>>, <<RInt(0), Rat(-3, 10)>>, <<RInt(0), RInt(1)>>,
     <<Rat(1, 2), RInt(0)>>, <<Rat(1, 4), Rat(1, 2)>>}

InitSimulate ==
    /\ EngineAtRest
    /\ \E h \in StoredHistories, r \in ScenarioAnswers, p \in ScenarioParameters,
          ok \in BOOLEAN :
         probe = [fn |-> "scenario",
                  input |-> [sick_rate |-> p[1], admission_surge |-> p[2],
                             history |-> h, ok |-> ok, response |-> r],
                  out |-> NoOut, done |-> FALSE]

Simulate ==
    /\ probe.fn = "scenario" /\ ~probe.done
    /\ probe' = [probe EXCEPT
                   !.out = ScenarioCompute({}, probe.input.sick_rate,
                                           probe.input.admission_surge,
                                           probe.input.history, probe.input.ok,
                                           probe.input.response, today, now),
                   !.done = TRUE]
    /\ UNCHANGED <<store, cache, now, today, req, inv, memo, started>>

NextSimulate == Simulate

SpecSimulate == InitSimulate /\ [][NextSimulate]_vars

(***************************************************************************)
(* calculate_staff_risk after a cache miss, on its own: the admissions,     *)
(* staff counts and overload histories below.                               *)
(***************************************************************************)
StaffRiskAdmissions == {0, 10, 12, 100, 120, 301}
StaffRiskStaff == {0, 1, 20, 30, 60}

\* Four overload days of the last month.
HFrequentOverloads ==
    <<HospitalRecord(1, 110, 470, 28, TRUE), HospitalRecord(2, 120, 480, 30, TRUE),
      HospitalRecord(3, 130, 490, 31, TRUE), HospitalRecord(4, 300, 495, 20, TRUE)>>

OverloadHistories == {<<>>, H2, HFrequentOverloads, HOverCapacity}

InitStaffRisk ==
    /\ EngineAtRest
    /\ \E a \in StaffRiskAdmissions, c \in StaffRiskStaff, h \in OverloadHistories,
          d \in {4, 200} :
         probe = [fn |-> "staff_risk",
                  input |-> [predicted_admissions |-> a, current_staff |-> c,
                             historical_overloads |-> h, day |-> d],
                  out |-> NoOut, done |-> FALSE]

StaffRisk ==
    /\ probe.fn = "staff_risk" /\ ~probe.done
    /\ probe' = [probe EXCEPT
                   !.out = StaffRiskCompute(probe.input.predicted_admissions,
                                            probe.input.current_staff,
                                            probe.input.historical_overloads,
                                            probe.input.day, now),
                   !.done = TRUE]
    /\ UNCHANGED <<store, cache, now, today, req, inv, memo, started>>

NextStaffRisk == StaffRisk

SpecStaffRisk == InitStaffRisk /\ [][NextStaffRisk]_vars

(***************************************************************************)
(* _calculate_base_staff_risk on its own, over ratios on both sides of and  *)
(* on each threshold (1/2, 3/10, 1/5).                                      *)
(***************************************************************************)
BaseRiskAdmissions == {-3, 0, 1, 2, 3, 4, 5, 6, 7, 10, 11, 20, 50, 100, 1000}
BaseRiskStaff == {0, 1, 2, 3, 5, 10, 60}

InitBaseStaffRisk ==
    /\ EngineAtRest
    /\ \E a \in BaseRiskAdmissions, c \in BaseRiskStaff :
         probe = [fn |-> "base_staff_risk",
                  input |-> [predicted_admissions |-> a, current_staff |-> c],
                  out |-> NoOut, done |-> FALSE]

BaseStaffRisk ==
    /\ probe.fn = "base_staff_risk" /\ ~probe.done
    /\ probe' = [probe EXCEPT
                   !.out = Returned(_calculate_base_staff_risk(
                                        probe.input.predicted_admissions,
                                        probe.input.current_staff)),
                   !.done = TRUE]
    /\ UNCHANGED <<store, cache, now, today, req, inv, memo, started>>

NextBaseStaffRisk == BaseStaffRisk

SpecBaseStaffRisk == InitBaseStaffRisk /\ [][NextBaseStaffRisk]_vars

(***************************************************************************)
(* _calculate_bed_stress on its own, on engines of several capacities, and  *)
(* beside it the forecasts of the engine as built (500 beds).               *)
(***************************************************************************)
BedCounts == {0, 1, 99, 100, 250, 425, 499, 500, 501, 1000}
Capacities == {0, 1, 100, 333, 500, 1000}

InitBedStress ==
    \/ /\ EngineAtRest
       /\ \E b \in BedCounts, c \in Capacities :
            probe = [fn |-> "bed_stress",
                     input |-> [predicted_beds |-> b, total_capacity |-> c],
                     out |-> NoOut, done |-> FALSE]
    \/ InitForecast

BedStress ==
    /\ probe.fn = "bed_stress" /\ ~probe.done
    /\ probe' = [probe EXCEPT
                   !.out = Returned(BedStressAt(RInt(probe.input.predicted_beds),
                                                probe.input.total_capacity)),
                   !.done = TRUE]
    /\ UNCHANGED <<store, cache, now, today, req, inv, memo, started>>

NextBedStress ==
    \/ BedStress
    \/ Forecast

SpecBedStress == InitBedStress /\ [][NextBedStress]_vars

(***************************************************************************)
(* retrieve_similar_crises on its own: the crises the store returned, in    *)
(* the order it returned them (crisis_id is the position), and a top_k.     *)
(***************************************************************************)
Descriptions == {"flu surge", "heat wave", "ward fire"}
TopKs == {-1, 0, 1, 2, 3, 5}

RECURSIVE CrisisLists(_)
CrisisLists(n) ==
    IF n = 0 THEN {<<>>}
    ELSE CrisisLists(n - 1) \cup
         {Append(l, StoredCrisis(n, d)) :
             l \in {c \in CrisisLists(n - 1) : Len(c) = n - 1}, d \in Descriptions}

InitRetrieve ==
    /\ EngineAtRest
    /\ \E k \in TopKs, crises \in CrisisLists(MaxLen) :
         probe = [fn |-> "retrieve",
                  input |-> [top_k |-> k, historical_crises |-> crises],
                  out |-> NoOut, done |-> FALSE]

Retrieve ==
    /\ probe.fn = "retrieve" /\ ~probe.done
    /\ probe' = [probe EXCEPT
                   !.out = Returned(retrieve_similar_crises(
                               probe.input.top_k, probe.input.historical_crises)),
                   !.done = TRUE]
    /\ UNCHANGED <<store, cache, now, today, req, inv, memo, started>>

NextRetrieve == Retrieve

SpecRetrieve == InitRetrieve /\ [][NextRetrieve]_vars

(***************************************************************************)
(* The engine beside the upload handler: store_records inserts the uploaded *)
(* rows and then calls invalidate_cache, while recommendation requests are  *)
(* served.  probe holds the position of store_records.                      *)
(***************************************************************************)
\* store_records.  History: inserted (insert_rows returned True), attempted
\* (insert_rows was called), begun0 and rows0 (the invalidate_cache calls
\* begun and the rows stored when store_records was entered).
IdleUpload ==
    [fn |-> "store_records", pc |-> "idle", records |-> <<>>, out |-> NoOut,
     attempted |-> FALSE, inserted |-> FALSE, begun0 |-> 0, rows0 |-> 0]

\* A batch without a row, and a batch of one day's row.
UploadBatches == {<<>>, <<[admissions |-> 150, beds_occupied |-> 450,
                          staff_on_duty |-> 25, overload_flag |-> TRUE]>>}

\* The requests served beside the upload.
UploadRequests ==
    <<[op |-> "recommendations", args |-> <<RInt(90), RInt(80), <<>>>>],
      [op |-> "recommendations", args |-> <<RInt(50), RInt(50), <<>>>>]>>

InitUpload ==
    /\ EngineAtRest
    /\ probe = IdleUpload

StartUploadRequest(s) == Start(s, UploadRequests)

\* store_records is entered: an empty list returns at once.
UploadStart ==
    /\ probe.pc \in {"idle", "done"}
    /\ inv.begun < MaxInv
    /\ \E records \in UploadBatches :
         probe' = IF records = <<>>
                  THEN [IdleUpload EXCEPT
                          !.pc = "done", !.begun0 = inv.begun,
                          !.rows0 = Len(store),
                          !.out = Returned([count |-> 0,
                                            warnings |-> <<"No records to store">>])]
                  ELSE [IdleUpload EXCEPT
                          !.pc = "insert", !.records = records,
                          !.begun0 = inv.begun, !.rows0 = Len(store)]
    /\ UNCHANGED <<store, cache, now, today, req, inv, memo, started>>

\* A store_records that calls invalidate_cache whatever insert_rows said.
AfterInsertInvalidatingAlways(success) == "invalidate"

\* Where store_records goes once insert_rows has answered.
AfterInsert(success) == IF success THEN "invalidate" ELSE "raise"

\* bq_client.insert_rows('logs', rows): the rows land, dated after those
\* stored, or the insert fails and store_records raises.
UploadInsert ==
    /\ probe.pc = "insert"
    /\ \E success \in BOOLEAN :
         /\ store' = IF success
                     THEN store \o [i \in 1..Len(probe.records) |->
                                      HospitalRecord(store[Len(store)].date + i,
                                                     probe.records[i].admissions,
                                                     probe.records[i].beds_occupied,
                                                     probe.records[i].staff_on_duty,
                                                     probe.records[i].overload_flag)]
                     ELSE store
         /\ probe' = IF AfterInsert(success) = "invalidate"
                     THEN [probe EXCEPT !.pc = "invalidate", !.attempted = TRUE,
                                        !.inserted = success]
                     ELSE [probe EXCEPT !.pc = "done", !.attempted = TRUE,
                                        !.inserted = success, !.out = Raised]
    /\ UNCHANGED <<cache, now, today, req, inv, memo, started>>

\* prediction_engine.invalidate_cache() of store_records begins.
UploadInvalidate ==
    /\ probe.pc = "invalidate"
    /\ inv.begun = probe.begun0
    /\ InvStart

\* invalidate_cache has returned (its result is not looked at):
\* store_records returns the count.
UploadReturn ==
    /\ probe.pc = "invalidate"
    /\ inv.begun > probe.begun0 /\ inv.pc = "idle"
    /\ probe' = [probe EXCEPT
                   !.pc = "done",
                   !.out = Returned([count |-> Len(probe.records),
                                     warnings |-> <<>>])]
    /\ UNCHANGED <<store, cache, now, today, req, inv, memo, started>>

NextUpload ==
    \/ \E s \in Slots : StartUploadRequest(s)
    \/ \E s \in Slots : CacheGet(s)
    \/ \E s \in Slots : ComputeRecommendations(s)
    \/ \E s \in Slots : CacheSet(s)
    \/ \E s \in Slots : Return(s)
    \/ UploadStart
    \/ UploadInsert
    \/ UploadInvalidate
    \/ InvDelete
    \/ InvReturn
    \/ UploadReturn
    \/ Tick

SpecUpload == InitUpload /\ [][NextUpload]_vars

(***************************************************************************)
(* The engine under dashboard requests and one request of each other       *)
(* cached operation, with invalidate_cache called beside them.              *)
(***************************************************************************)
DashboardRequests ==
    <<[op |-> "dashboard", args |-> <<>>],
      [op |-> "recommendations", args |-> <<RInt(90), RInt(80), <<>>>>],
      [op |-> "staff_risk", args |-> <<100, 30, <<>>>>],
      [op |-> "forecast", args |-> <<7, <<>>>>]>>

\* The backend's answers to the dashboard's forecast: no text, or an array
\* without a day.
DashboardAnswers == {Response("none", <<>>), Response("list", <<>>)}

StartDashboardRequest(s) == Start(s, DashboardRequests)

ComputeDashboard(s) ==
    /\ req[s].pc = "compute" /\ req[s].op = "dashboard"
    /\ now < MaxTime
    /\ \E ok \in BOOLEAN, response \in DashboardAnswers,
          rec_response \in RecResponses, retrieval \in Retrievals :
         \E out \in {DashboardCompute(cache, store, ok, response, rec_response,
                                      retrieval, today, now)} :
             /\ req' = [req EXCEPT ![s] =
                          [@ EXCEPT !.pc = IF out.status = "ok" THEN "set" ELSE "done",
                                    !.out = [status |-> out.status,
                                             value |-> out.value],
                                    !.backend = GenerateContentCalls(response),
                                    !.failed = CallFailed(response),
                                    !.read = Len(store),
                                    !.effects = {"history", "cache", "backend"}]]
             /\ cache' = AfterSets(cache, out.calls, Len(out.calls), now,
                                   inv.begun, Len(store))
    /\ now' = now + 1
    /\ UNCHANGED <<store, today, inv, probe, memo, started>>

NextDashboard ==
    \/ \E s \in Slots : StartDashboardRequest(s)
    \/ \E s \in Slots : CacheGet(s)
    \/ \E s \in Slots : ComputeForecast(s)
    \/ \E s \in Slots : ComputeStaffRisk(s)
    \/ \E s \in Slots : ComputeRecommendations(s)
    \/ \E s \in Slots : ComputeDashboard(s)
    \/ \E s \in Slots : CacheSet(s)
    \/ \E s \in Slots : Return(s)
    \/ InvStart
    \/ InvDelete
    \/ InvReturn
    \/ Tick

SpecDashboard == Init /\ [][NextDashboard]_vars

(***************************************************************************)
(* Properties                                                               *)
(***************************************************************************)

\* C1: on a cache miss forecast_bed_demand(7, history) returns exactly 7
\* daily predictions, dated the 7 consecutive days that start tomorrow,
\* whatever the history and whatever day array the backend gave.
C1_SevenConsecutiveDays ==
    (probe.fn = "forecast" /\ probe.done /\ probe.out.status = "ok")
    => LET predictions == probe.out.value.predictions
       IN  /\ Len(predictions) = 7
           /\ \A i \in 1..Len(predictions) :
                predictions[i].date = probe.input.day + i

\* C2: for every bed stress, staff risk, context and backend response,
\* generate_recommendations returns exactly 3 recommendations whose
\* priorities are 1, 2 and 3, each used once.
C2_ThreeWithPriorities123 ==
    (probe.fn = "recommendations" /\ probe.done)
    => /\ probe.out.status = "ok"
       /\ Len(probe.out.value) = 3
       /\ {probe.out.value[i].priority : i \in 1..3} = {1, 2, 3}

\* C3: in the list generate_recommendations returns, an item of higher
\* priority (smaller number) never has a smaller impact_score/cost_estimate
\* than an item of lower priority, whatever priorities the backend gave.
C3_PriorityFollowsRatio ==
    (probe.fn = "recommendations" /\ probe.done /\ probe.out.status = "ok")
    => LET recs == probe.out.value
       IN  \A i, j \in 1..Len(recs) :
              recs[i].priority < recs[j].priority
              => /\ RLt(RInt(0), recs[i].cost_estimate)
                 /\ RLt(RInt(0), recs[j].cost_estimate)
                 /\ RLe(RDiv(recs[j].impact_score, recs[j].cost_estimate),
                        RDiv(recs[i].impact_score, recs[i].cost_estimate))

\* The backend ranked the discharge item second and the overflow ward last;
\* it is returned first, the overflow ward second.
C3_Witness ==
    /\ probe.fn = "recommendations" /\ probe.done /\ probe.out.status = "ok"
    /\ probe.input.response = Response("list", GoodRecs)
    /\ probe.out.value[1].title = Title("ENHANCE DISCHARGE PLANNING")
    /\ probe.out.value[1].priority = 1
    /\ probe.out.value[2].title = Title("Open Overflow Ward")
    /\ probe.out.value[2].priority = 2

\* C4: a forecast, staff-risk or recommendation request made again with the
\* same arguments, inside the time to live and with no invalidation and no
\* other write in between, returns the result the first one returned (same
\* values, same generated_at) without calling the backend.
C4_SecondRequestServedFromCache ==
    \A s \in Slots :
        (req[s].pc = "done" /\ req[s].expect # NoOut)
        => /\ req[s].out = req[s].expect
           /\ req[s].backend = 0

C6_NeverRaises ==
    \A s \in Slots :
        (req[s].pc = "done" /\ req[s].op \in {"forecast", "recommendations"})
        => req[s].out.status = "ok"

\* C7: simulate_scenario ends in the range error exactly when sick_rate is
\* outside [0, 1/2] or admission_surge is outside [-3/10, 1], and a rejected
\* call has touched neither the history store, the backend nor the cache.
C7_RangeErrorBeforeAnyEffect ==
    [][\A s \in Slots :
         (req[s].pc = "run" /\ req'[s].pc = "done")
         => LET sick_rate == req[s].args[1]
                admission_surge == req[s].args[2]
            IN  IF /\ RLe(RInt(0), sick_rate) /\ RLe(sick_rate, Rat(1, 2))
                   /\ RLe(Rat(-3, 10), admission_surge)
                   /\ RLe(admission_surge, RInt(1))
                THEN req'[s].out.status # "range_error"
                ELSE /\ req'[s].out = RangeError
                     /\ req'[s].effects = {}
                     /\ cache' = cache]_vars

\* A scenario request was rejected while the cache held an entry.
C7_Witness ==
    \E s \in Slots :
        /\ req[s].pc = "done" /\ req[s].op = "scenario"
        /\ req[s].out = RangeError
        /\ cache # {}

\* The last value of the column at or before record i that is neither
\* absent nor negative, 0 when there is none.
RECURSIVE PreviousValid(_, _, _)
PreviousValid(data, col, i) ==
    IF i = 0 THEN 0
    ELSE IF data[i][col] = None \/ data[i][col] < 0
    THEN PreviousValid(data, col, i - 1)
    ELSE data[i][col]

\* C8: _handle_missing_data returns as many records, with the same dates in
\* the same order, and each admissions, beds_occupied and staff_on_duty is
\* the previous value of the field that is neither absent nor negative, or 0:
\* none is negative.
C8_RepairLeavesNoNegative ==
    (probe.fn = "repair" /\ probe.done)
    => LET data == probe.input
           repaired == probe.out.value
       IN  /\ probe.out.status = "ok"
           /\ Len(repaired) = Len(data)
           /\ \A i \in 1..Len(data) :
                /\ repaired[i].date = data[i].date
                /\ \A col \in {"admissions", "beds_occupied", "staff_on_duty"} :
                     /\ repaired[i][col] >= 0
                     /\ repaired[i][col] = PreviousValid(data, col, i)

\* C9: a request is answered from the cache only by an entry an earlier
\* request of the same operation wrote with the same arguments, all of them.
C9_EntryOnlyForEqualArguments ==
    \A s \in Slots :
        (req[s].pc = "done" /\ req[s].hit) => req[s].writer = req[s].args

\* C10: a forecast, staff-risk or recommendation request during which
\* invalidate_cache ran ends with a result, never with an error.
C10_RaceNeverEndsInError ==
    \A s \in Slots :
        (/\ req[s].pc = "done" /\ req[s].overlap
         /\ req[s].op \in {"forecast", "staff_risk", "recommendations"})
        => req[s].out.status = "ok"

\* C11: a request whose cache get or set failed still ends with its result,
\* never with an error, and an invalidate_cache call under which Redis
\* failed ends by returning False.
C11_CacheFailureIsAMiss ==
    /\ \A s \in Slots :
          (req[s].pc = "done" /\ req[s].cacheFailed)
          => /\ req[s].out.status = "ok"
             /\ ~req[s].hit
    /\ (inv.pc = "done" /\ inv.failed) => inv.result = FALSE

\* Some action of some lesson holds a keyword of the title.
MatchesSomeAction(recommendation, lessons) ==
    \E i \in 1..Len(lessons) :
        \E j \in 1..Len(lessons[i].actions_taken) :
            lessons[i].actions_taken[j].contains
                \cap _extract_keywords(recommendation.title.s) # {}

\* C12: enhance_recommendations returns as many recommendations as it was
\* given, in the same order, each with the title, description, cost_estimate,
\* impact_score, priority and implementation_time of its input; the
\* rationale keeps its text and what it already held, with at most new
\* historical context appended, and is unchanged when no action of any
\* lesson matches a keyword of the title.
C12_EnhancementOnlyAppendsToRationale ==
    (probe.fn = "enhance" /\ probe.done)
    => LET given == probe.input.recommendations
           got == probe.out.value
       IN  /\ probe.out.status = "ok"
           /\ Len(got) = Len(given)
           /\ \A i \in 1..Len(given) :
                /\ got[i].title = given[i].title
                /\ got[i].description = given[i].description
                /\ got[i].cost_estimate = given[i].cost_estimate
                /\ got[i].impact_score = given[i].impact_score
                /\ got[i].priority = given[i].priority
                /\ got[i].implementation_time = given[i].implementation_time
                /\ got[i].rationale.text = given[i].rationale.text
                /\ Len(got[i].rationale.notes) >= Len(given[i].rationale.notes)
                /\ SubSeq(got[i].rationale.notes, 1, Len(given[i].rationale.notes))
                      = given[i].rationale.notes
                /\ ~MatchesSomeAction(given[i], probe.input.lessons)
                      => got[i].rationale = given[i].rationale

\* Three recommendations were enhanced: the first gained historical context,
\* the maintenance review, which matches nothing, kept its rationale.
C12_Witness ==
    /\ probe.fn = "enhance" /\ probe.done
    /\ probe.input.lessons = Lessons
    /\ Len(probe.input.recommendations) = 3
    /\ probe.input.recommendations[3].title = Title("Preventive Maintenance Review")
    /\ probe.out.value[3].rationale = probe.input.recommendations[3].rationale
    /\ Len(probe.out.value[1].rationale.notes)
          > Len(probe.input.recommendations[1].rationale.notes)

\* No lesson reaches the recommendations: the retrieval raised or found
\* nothing, or the enhancement raised on a title that is no string.
NoCrisesRetrievable(retrieval, recommendations) ==
    \/ retrieval.kind = "raise"
    \/ retrieval.lessons = <<>>
    \/ \E i \in 1..Len(recommendations) :
          EnhanceRaises(recommendations[i], retrieval.lessons)

\* C13: when no historical crisis is retrievable (none stored, the store
\* unavailable, the retrieval or the enhancement raising),
\* generate_recommendations does not raise and returns the ranked
\* recommendations as the ranking left them, no historical context added;
\* enhance_recommendations with no lesson returns its input.
C13_NoCrisesLeavesRankedUnchanged ==
    /\ (probe.fn = "recommendations" /\ probe.done)
       => \/ /\ probe.out.status = "ok"
             /\ ~NoCrisesRetrievable(probe.input.retrieval, probe.out.value)
          \/ /\ probe.out.status = "ok"
             /\ \A i \in 1..Len(probe.out.value) :
                   probe.out.value[i].rationale.notes = <<>>
             /\ probe.out.value
                   = _rank_recommendations_by_impact_cost_ratio(probe.out.value)
    /\ (probe.fn = "enhance" /\ probe.done /\ probe.input.lessons = <<>>)
       => probe.out = Returned(probe.input.recommendations)

\* The mean of the bed stresses of a forecast's days.
AverageStress(forecast) ==
    LET RECURSIVE Sum(_)
        Sum(i) == IF i = 0 THEN RInt(0)
                  ELSE RAdd(Sum(i - 1), forecast.predictions[i].bed_stress)
    IN  RDiv(Sum(Len(forecast.predictions)), RInt(Len(forecast.predictions)))

\* simulate_scenario(sick_rate, admission_surge) has returned a result.
Simulated(sick_rate, admission_surge) ==
    /\ probe.fn = "scenario" /\ probe.done /\ probe.out.status = "ok"
    /\ probe.input.sick_rate = sick_rate
    /\ probe.input.admission_surge = admission_surge

\* C14: for every stored history, the result of simulate_scenario(0, 0) has
\* on each day the predicted_beds and the bed_stress of the baseline, and a
\* scenario staff risk_score less than 1.0 away from the baseline's.
C14_NoChangeScenarioEqualsBaseline ==
    Simulated(RInt(0), RInt(0))
    => LET baseline == probe.out.value.baseline_forecast.predictions
           scenario == probe.out.value.scenario_forecast.predictions
           baseline_risk == probe.out.value.baseline_staff_risk.risk_score
           scenario_risk == probe.out.value.scenario_staff_risk.risk_score
       IN  /\ Len(scenario) = Len(baseline)
           /\ \A i \in 1..Len(baseline) :
                /\ scenario[i].predicted_beds = baseline[i].predicted_beds
                /\ scenario[i].bed_stress = baseline[i].bed_stress
           /\ RLt(RSub(baseline_risk, scenario_risk), RInt(1))
           /\ RLt(RSub(scenario_risk, baseline_risk), RInt(1))

\* C15: for every stored history, the average scenario bed_stress is
\* strictly lower than the baseline's for admission_surge = -0.3 and
\* strictly higher for admission_surge = 1.0.
C15_SurgeMovesAverageStress ==
    /\ Simulated(RInt(0), Rat(-3, 10))
       => RLt(AverageStress(probe.out.value.scenario_forecast),
              AverageStress(probe.out.value.baseline_forecast))
    /\ Simulated(RInt(0), RInt(1))
       => RLt(AverageStress(probe.out.value.baseline_forecast),
              AverageStress(probe.out.value.scenario_forecast))

\* C16: for every stored history, simulate_scenario(0.5, 0) gives a scenario
\* staff risk_score strictly greater than the baseline risk_score.
C16_HalfStaffSickRaisesRisk ==
    Simulated(Rat(1, 2), RInt(0))
    => RLt(probe.out.value.baseline_staff_risk.risk_score,
           probe.out.value.scenario_staff_risk.risk_score)

\* C17: every DailyPrediction forecast_bed_demand returns has an integer
\* predicted_beds >= 0, a bed_stress in [0, 100] and a confidence (a number)
\* in [0, 100], whatever numbers the backend gave for the day.
C17_DailyPredictionInRange ==
    (probe.fn = "forecast" /\ probe.done /\ probe.out.status = "ok")
    => \A i \in 1..Len(probe.out.value.predictions) :
          LET p == probe.out.value.predictions[i]
          IN  /\ p.predicted_beds.d = 1
              /\ p.predicted_beds.n >= 0
              /\ RLe(RInt(0), p.bed_stress) /\ RLe(p.bed_stress, RInt(100))
              /\ p.confidence.t = "num"
              /\ RLe(RInt(0), p.confidence.v) /\ RLe(p.confidence.v, RInt(100))

\* C18: for every predicted_admissions >= 0, current_staff >= 0 and overload
\* history, empty or not, calculate_staff_risk returns a risk_score in
\* [0, 100] and at least one contributing factor.
C18_RiskScoreInRangeWithFactors ==
    (probe.fn = "staff_risk" /\ probe.done)
    => /\ probe.out.status = "ok"
       /\ RLe(RInt(0), probe.out.value.risk_score)
       /\ RLe(probe.out.value.risk_score, RInt(100))
       /\ Len(probe.out.value.contributing_factors) >= 1

\* Ample staff and no overload history: no condition applies and the only
\* factor is the default one.
C18_Witness ==
    /\ probe.fn = "staff_risk" /\ probe.done
    /\ probe.input.historical_overloads = <<>>
    /\ probe.input.predicted_admissions = 10 /\ probe.input.current_staff = 30
    /\ probe.out.value.contributing_factors
          = <<"Low risk - adequate staffing for predicted volume">>

\* C20: every StaffRiskScore calculate_staff_risk computes has is_critical
\* true exactly when its risk_score is strictly greater than 75.
C20_CriticalExactlyAbove75 ==
    (probe.fn = "staff_risk" /\ probe.done /\ probe.out.status = "ok")
    => (probe.out.value.is_critical <=> RLt(RInt(75), probe.out.value.risk_score))

\* One nurse for twelve admissions and no overload history: the risk_score
\* is exactly 75 and the score is not critical.
C20_Witness ==
    /\ probe.fn = "staff_risk" /\ probe.done /\ probe.out.status = "ok"
    /\ probe.out.value.risk_score = RInt(75)
    /\ ~probe.out.value.is_critical

\* C19: every DailyPrediction of the forecast forecast_bed_demand produced
\* and of the scenario forecast simulate_scenario derived from it has
\* is_high_risk true exactly when its bed_stress is strictly greater than 85.
C19_HighRiskExactlyAbove85 ==
    (probe.fn = "scenario" /\ probe.done /\ probe.out.status = "ok")
    => LET baseline == probe.out.value.baseline_forecast.predictions
           scenario == probe.out.value.scenario_forecast.predictions
       IN  /\ \A i \in 1..Len(baseline) :
                baseline[i].is_high_risk <=> RLt(RInt(85), baseline[i].bed_stress)
           /\ \A i \in 1..Len(scenario) :
                scenario[i].is_high_risk <=> RLt(RInt(85), scenario[i].bed_stress)

\* The backend forecast 425 of the 500 beds: the baseline day stands at a
\* bed stress of exactly 85 and is not high risk, the day of the scenario
\* with a surge is.
C19_Witness ==
    /\ probe.fn = "scenario" /\ probe.done /\ probe.out.status = "ok"
    /\ probe.out.value.baseline_forecast.predictions[1].bed_stress = RInt(85)
    /\ ~probe.out.value.baseline_forecast.predictions[1].is_high_risk
    /\ probe.out.value.scenario_forecast.predictions[1].is_high_risk

\* stress is beds / capacity * 100 clamped to [0, 100] (capacity > 0).
IsClampedShare(stress, beds, capacity) ==
    IF RLe(beds, RInt(0)) THEN stress = RInt(0)
    ELSE IF RLe(RInt(capacity), beds) THEN stress = RInt(100)
    ELSE RMul(stress, RInt(capacity)) = RMul(beds, RInt(100))

\* C21: for every predicted_beds >= 0 and total capacity > 0,
\* _calculate_bed_stress is predicted_beds / capacity * 100 clamped to
\* [0, 100], and the bed_stress of every forecast day is that value for the
\* day's predicted_beds and the engine's capacity.
C21_BedStressIsClampedShare ==
    /\ (probe.fn = "bed_stress" /\ probe.done /\ probe.input.total_capacity > 0)
       => IsClampedShare(probe.out.value, RInt(probe.input.predicted_beds),
                         probe.input.total_capacity)
    /\ (probe.fn = "forecast" /\ probe.done /\ probe.out.status = "ok")
       => \A i \in 1..Len(probe.out.value.predictions) :
             IsClampedShare(probe.out.value.predictions[i].bed_stress,
                            probe.out.value.predictions[i].predicted_beds,
                            total_bed_capacity)

\* 250 beds of 333: a share that is no whole number, 25000/333.
C21_Witness ==
    /\ probe.fn = "bed_stress" /\ probe.done
    /\ probe.input.predicted_beds = 250 /\ probe.input.total_capacity = 333
    /\ probe.out.value = Rat(25000, 333)

\* The similarity of stored crisis c to the context.
SimilarityOf(c) == _cosine_similarity(c.crisis_description)

\* C22: retrieve_similar_crises(context, top_k) returns min(top_k, number of
\* stored crises) lessons in order of non-increasing similarity; no crisis
\* left out is more similar than a returned one, and lessons of equal
\* similarity appear in their input order (top_k a count, >= 0).
C22_TopKBySimilarityStable ==
    (probe.fn = "retrieve" /\ probe.done /\ probe.input.top_k >= 0) =>
        LET crises == probe.input.historical_crises
            lessons == probe.out.value
            returned == {lessons[i].crisis_id : i \in 1..Len(lessons)}
        IN  /\ Len(lessons) = Min(probe.input.top_k, Len(crises))
            /\ Cardinality(returned) = Len(lessons)
            /\ \A i \in 1..Len(lessons) :
                  /\ lessons[i].crisis_id \in 1..Len(crises)
                  /\ lessons[i].crisis_description =
                        crises[lessons[i].crisis_id].crisis_description
                  /\ lessons[i].similarity_score = SimilarityOf(lessons[i])
            /\ \A i, j \in 1..Len(lessons) :
                  i < j => /\ RLe(SimilarityOf(lessons[j]), SimilarityOf(lessons[i]))
                           /\ SimilarityOf(lessons[i]) = SimilarityOf(lessons[j])
                                => lessons[i].crisis_id < lessons[j].crisis_id
            /\ \A c \in 1..Len(crises) : \A i \in 1..Len(lessons) :
                  c \notin returned
                    => ~RLt(SimilarityOf(lessons[i]), SimilarityOf(crises[c]))

\* Three crises, the least similar first and two equally similar after it;
\* top_k = 2 returns the two, in input order, and leaves the first out.
C22_Witness ==
    /\ probe.fn = "retrieve" /\ probe.done /\ probe.input.top_k = 2
    /\ Len(probe.input.historical_crises) = 3
    /\ probe.input.historical_crises[1].crisis_description = "ward fire"
    /\ probe.input.historical_crises[2].crisis_description = "flu surge"
    /\ probe.input.historical_crises[3].crisis_description = "flu surge"
    /\ Len(probe.out.value) = 2
    /\ probe.out.value[1].crisis_id = 2 /\ probe.out.value[2].crisis_id = 3

\* The titles of a list of recommendations.
TitlesOf(recommendations) ==
    {recommendations[i].title : i \in 1..Len(recommendations)}

\* C23: within one forecast_bed_demand request and within one
\* generate_recommendations request the backend is called at most once; a
\* request whose call failed made that one call only and ends with a result,
\* which is the deterministic fallback's: the forecast days carry the
\* fallback's confidence (60 with history, 30 without), the recommendations
\* are the fallback's three.
C23_OneCallThenFallback ==
    \A s \in Slots :
        /\ req[s].op \in {"forecast", "recommendations"} => req[s].backend <= 1
        /\ (req[s].op \in {"forecast", "recommendations"} /\ req[s].failed)
           => /\ req[s].backend = 1
              /\ req[s].out.status = "ok"
              /\ req[s].op = "forecast"
                   => /\ Len(req[s].out.value.predictions) = req[s].args[1]
                      /\ \A i \in 1..Len(req[s].out.value.predictions) :
                            req[s].out.value.predictions[i].confidence
                                \in {JNum(60), JNum(30)}
              /\ req[s].op = "recommendations"
                   => TitlesOf(req[s].out.value) =
                        TitlesOf(_generate_fallback_recommendations(
                                     req[s].args[1], req[s].args[2]))

\* A forecast request whose one call failed has returned its seven days.
C23_Witness ==
    \E s \in Slots :
        /\ req[s].op = "forecast" /\ req[s].pc = "done" /\ req[s].failed
        /\ req[s].backend = 1 /\ ~req[s].hit
        /\ Len(req[s].out.value.predictions) = 7

\* C26: store_records calls invalidate_cache exactly when insert_rows
\* succeeded, and only after it: an empty list is neither inserted nor
\* followed by an invalidation, and a failed insert raises with no
\* invalidation.
C26_InvalidatesExactlyAfterInsert ==
    probe.fn = "store_records" =>
        LET called == inv.begun - probe.begun0
        IN  /\ called \in {0, 1}
            /\ called = 1 => probe.inserted
            /\ probe.inserted => Len(store) = probe.rows0 + Len(probe.records)
            /\ (probe.pc # "idle" /\ ~probe.inserted) => Len(store) = probe.rows0
            /\ probe.pc = "done" =>
                  /\ called = 1 <=> probe.inserted
                  /\ probe.records = <<>> =>
                        /\ ~probe.attempted
                        /\ probe.out.status = "ok" /\ probe.out.value.count = 0
                  /\ (probe.attempted /\ ~probe.inserted) => probe.out = Raised
                  /\ probe.inserted =>
                        /\ probe.out.status = "ok"
                        /\ probe.out.value.count = Len(probe.records)

\* store_records has returned the count of a batch it inserted, the
\* invalidation having run after the insert.
C26_Witness ==
    /\ probe.fn = "store_records" /\ probe.pc = "done" /\ probe.inserted
    /\ inv.begun = probe.begun0 + 1 /\ inv.pc = "idle"
    /\ probe.out.status = "ok" /\ probe.out.value.count = 1
    /\ Len(store) = probe.rows0 + 1

\* C24: once an invalidate_cache triggered by newly stored rows has
\* returned True, no request begun afterwards is answered with a result
\* computed when the store did not yet hold those rows; a request that
\* read the store before the invalidation and wrote its result after it
\* does not pass that result on to later requests.
C24_NoStaleResultAfterInvalidation ==
    \A s \in Slots :
        (req[s].pc = "done" /\ req[s].out.status = "ok" /\ req[s].floor > 0)
        => req[s].read >= inv.stored[req[s].floor]

\* C25: every key the engine writes (forecast, staff risk, recommendations
\* and the dashboard snapshot) lies in the prediction namespace that
\* invalidate_cache clears, so a request begun after invalidate_cache
\* returned True, get_dashboard_data included, is never answered from an
\* entry written before that call began.
C25_EveryKeyInvalidated ==
    /\ \A e \in cache : e.key.ns = "prediction"
    /\ \A s \in Slots :
          (req[s].pc = "done" /\ req[s].hit /\ req[s].floor > 0)
          => req[s].gen >= req[s].floor

\* The ratio of a recommendation with its cost floored at 1000.
FlooredRatio(rec) ==
    RDiv(rec.impact_score, RMax(rec.cost_estimate, RInt(1000)))

\* C27: recommendations are ranked by impact_score over the cost floored at
\* 1000: a cost below 1000 (zero, negative or small and positive) counts as
\* 1000, so no recommendation of the returned list stands before one whose
\* floored ratio is greater.
C27_RankedByCostFlooredAt1000 ==
    (probe.fn = "recommendations" /\ probe.done /\ probe.out.status = "ok")
    => \A i, j \in 1..Len(probe.out.value) :
          i < j => RLe(FlooredRatio(probe.out.value[j]),
                       FlooredRatio(probe.out.value[i]))

\* The backend gave nothing a forecast can be read from: no text, text that
\* is no JSON array, or an array with an element that is no object.
Unusable(response) ==
    \/ response.kind # "list"
    \/ \E i \in 1..Len(response.items) : ~response.items[i].obj

\* The fallback's day i for a history: the mean beds_occupied of the last 14
\* repaired records times 1.1 on a weekday and 0.9 at the weekend, cut to an
\* integer, with confidence 60; confidence 30 when there is no history.
IsFallbackDay(prediction, history, d) ==
    LET recent == LastN(_handle_missing_data(history), 14)
        mean == Rat(SumOver(recent, "beds_occupied", Len(recent)), Len(recent))
        scaled == RMul(mean, IF weekday(d) < 5 THEN Rat(11, 10) ELSE Rat(9, 10))
    IN  IF history = <<>> THEN prediction.confidence = JNum(30)
        ELSE /\ prediction.predicted_beds = RInt(RTrunc(scaled))
             /\ prediction.confidence = JNum(60)

\* C28: when the backend is unavailable, throws or returns unusable output,
\* forecast_bed_demand returns the fallback forecast: every day's
\* predicted_beds is the mean of the last 14 repaired records times 1.1
\* (weekday) or 0.9 (weekend) cut to an integer, with confidence 60, and
\* confidence 30 when the history is empty.
C28_UnusableAnswerGivesFallback ==
    (probe.fn = "forecast" /\ probe.done /\ Unusable(probe.input.response))
    => /\ probe.out.status = "ok"
       /\ Len(probe.out.value.predictions) = probe.input.days_ahead
       /\ \A i \in 1..Len(probe.out.value.predictions) :
             IsFallbackDay(probe.out.value.predictions[i], probe.input.history,
                           probe.input.day + i)

\* lo <= x <= hi.
RBetween(lo, x, hi) == RLe(RInt(lo), x) /\ RLe(x, RInt(hi))

\* C29: with r = current_staff / max(1, predicted_admissions) and
\* current_staff >= 1, the base staff risk is in [0,20] for r >= 0.5, in
\* [20,50] for 0.3 <= r < 0.5, in [50,80] for 0.2 <= r < 0.3 and in [80,100]
\* for r < 0.2; with current_staff = 0 it is 100 whatever the admissions.
C29_BaseRiskBands ==
    (probe.fn = "base_staff_risk" /\ probe.done)
    => LET staff == probe.input.current_staff
           admissions == probe.input.predicted_admissions
           r == Rat(staff, IF admissions >= 1 THEN admissions ELSE 1)
           risk == probe.out.value
       IN  /\ probe.out.status = "ok"
           /\ staff = 0 => risk = RInt(100)
           /\ (staff >= 1 /\ RLe(Rat(1, 2), r)) => RBetween(0, risk, 20)
           /\ (staff >= 1 /\ RLe(Rat(3, 10), r) /\ RLt(r, Rat(1, 2)))
              => RBetween(20, risk, 50)
           /\ (staff >= 1 /\ RLe(Rat(1, 5), r) /\ RLt(r, Rat(3, 10)))
              => RBetween(50, risk, 80)
           /\ (staff >= 1 /\ RLt(r, Rat(1, 5))) => RBetween(80, risk, 100)

\* Two staff for five admissions: r = 0.4, inside the medium band, risk 35.
C29_Witness ==
    /\ probe.fn = "base_staff_risk" /\ probe.done
    /\ probe.input.current_staff = 2 /\ probe.input.predicted_admissions = 5
    /\ probe.out.value = RInt(35)

\* The step in which request s hands its result and a TTL to set.
SetStep(s) == req[s].pc = "set" /\ req'[s].pc = "done" /\ req'[s].expires > 0

\* C30 as stated: what a staff-risk request hands to set expires after a
\* forecast or recommendation entry written at the same instant would, and
\* what a dashboard request hands to set expires before both.
C30_StaffRiskOutlivesPredictions ==
    [][\A s \in Slots :
         SetStep(s)
         => /\ req[s].op = "staff_risk"
               => req'[s].expires > now + prediction_cache_ttl
            /\ req[s].op \in {"forecast", "recommendations"}
               => req'[s].expires < now + staff_risk_cache_ttl
            /\ req[s].op = "dashboard"
               => /\ req'[s].expires < now + staff_risk_cache_ttl
                  /\ req'[s].expires < now + prediction_cache_ttl]_vars

\* C30, amended: under the default configuration what a forecast or
\* recommendation request hands to set expires after a staff-risk entry
\* written at the same instant would, a staff-risk request's expires after a
\* dashboard entry and before a forecast or recommendation entry, and a
\* dashboard request's expires before both.
C30_DashboardThenStaffRiskThenPredictions ==
    [][\A s \in Slots :
         SetStep(s)
         => /\ req[s].op = "staff_risk"
               => /\ req'[s].expires > now + dashboard_cache_ttl
                  /\ req'[s].expires < now + prediction_cache_ttl
            /\ req[s].op \in {"forecast", "recommendations"}
               => /\ req'[s].expires > now + staff_risk_cache_ttl
                  /\ req'[s].expires > now + dashboard_cache_ttl
            /\ req[s].op = "dashboard"
               => /\ req'[s].expires < now + staff_risk_cache_ttl
                  /\ req'[s].expires < now + prediction_cache_ttl]_vars

\* The second request made is a staff-risk request that has handed its
\* result to set, to expire 600 s from now.
C30_Witness ==
    \E s \in Slots :
        /\ req[s].pc = "done" /\ req[s].op = "staff_risk"
        /\ req[s].expires = now + 600
        /\ started = 2

====
